---- MODULE Spec2Model ----
(***************************************************************************)
(* Record store of the credit-card tracker: the CSV backing file, the two  *)
(* load_data implementations (dashboard: main.py, bot: bot.py), to_csv,    *)
(* the dashboard's action handlers and the physical file I/O of the two    *)
(* front ends.                                                             *)
(*                                                                         *)
(* Text is a sequence of tokens: the digits "0".."9", "-", "." and opaque  *)
(* word tokens (a word token stands for a run of letters).  Floats are     *)
(* carried in tenths (one fractional digit).  Dates are yyyymmdd numbers.  *)
(***************************************************************************)
EXTENDS Integers, Sequences, FiniteSets, TLC

VARIABLES file, today, session, chat, tags, last, rs, result, disk, lock, pc, pos, buf, ver, seen,
          backup_dir, clock

vars == <<file, today, session, chat, tags, last, rs, result, disk, lock, pc, pos, buf, ver, seen,
         backup_dir, clock>>

(***************************************************************************)
(* Bounds                                                                  *)
(***************************************************************************)
MaxCards == 2
MaxOrder == 2
MaxRows == 2
MaxSaves == 2
MaxLines == 2

(***************************************************************************)
(* Text and number conversions                                             *)
(***************************************************************************)
DIGITS == <<"0", "1", "2", "3", "4", "5", "6", "7", "8", "9">>

Digit == {DIGITS[i] : i \in 1..10}

DigitVal(c) == (CHOOSE i \in 1..10 : DIGITS[i] = c) - 1

IsDigits(t) == Len(t) > 0 /\ \A i \in 1..Len(t) : t[i] \in Digit

RECURSIVE TextToNat(_)
TextToNat(t) ==
  IF t = <<>> THEN 0
  ELSE TextToNat(SubSeq(t, 1, Len(t) - 1)) * 10 + DigitVal(t[Len(t)])

RECURSIVE NatToText(_)
NatToText(n) ==
  IF n < 10 THEN <<DIGITS[n + 1]>>
  ELSE NatToText(n \div 10) \o <<DIGITS[(n % 10) + 1]>>

IntToText(n) == IF n < 0 THEN <<"-">> \o NatToText(0 - n) ELSE NatToText(n)

IsIntText(t) ==
  \/ IsDigits(t)
  \/ Len(t) > 1 /\ t[1] = "-" /\ IsDigits(Tail(t))

TextToInt(t) ==
  IF t[1] = "-" THEN 0 - TextToNat(Tail(t)) ELSE TextToNat(t)

\* A float literal with one fractional digit: [-]ddd.d
IsFloatText(t) ==
  /\ Len(t) >= 3
  /\ t[Len(t) - 1] = "."
  /\ t[Len(t)] \in Digit
  /\ IsIntText(SubSeq(t, 1, Len(t) - 2))

IsNumText(t) == IsIntText(t) \/ IsFloatText(t)

\* value of a numeric literal, in tenths
TextToFloat(t) ==
  IF IsIntText(t) THEN TextToInt(t) * 10
  ELSE LET ip == SubSeq(t, 1, Len(t) - 2)
           fr == DigitVal(t[Len(t)])
       IN  IF ip[1] = "-" THEN 0 - (TextToNat(Tail(ip)) * 10 + fr)
           ELSE TextToNat(ip) * 10 + fr

\* repr() of a float carried in tenths
FloatToText(x) ==
  LET a == IF x < 0 THEN 0 - x ELSE x
      body == NatToText(a \div 10) \o <<".", DIGITS[(a % 10) + 1]>>
  IN  IF x < 0 THEN <<"-">> \o body ELSE body

\* int() of a float carried in tenths: truncation toward zero
FloatToInt(x) == IF x < 0 THEN 0 - ((0 - x) \div 10) ELSE x \div 10

Pad2(n) == IF n < 10 THEN <<"0">> \o NatToText(n) ELSE NatToText(n)

Pad4(n) ==
  IF n < 10 THEN <<"0", "0", "0">> \o NatToText(n)
  ELSE IF n < 100 THEN <<"0", "0">> \o NatToText(n)
  ELSE IF n < 1000 THEN <<"0">> \o NatToText(n)
  ELSE NatToText(n)

(***************************************************************************)
(* Dates: yyyymmdd                                                         *)
(***************************************************************************)
MkDate(y, m, d) == y * 10000 + m * 100 + d
YearOf(n) == n \div 10000
MonthOf(n) == (n \div 100) % 100
DayOf(n) == n % 100

IsLeap(y) == (y % 4 = 0 /\ y % 100 # 0) \/ y % 400 = 0

DaysInMonth(y, m) ==
  IF m = 2 THEN (IF IsLeap(y) THEN 29 ELSE 28)
  ELSE IF m \in {4, 6, 9, 11} THEN 30 ELSE 31

IsValidDate(y, m, d) == m \in 1..12 /\ d >= 1 /\ d <= DaysInMonth(y, m)

\* The ISO form to_csv writes for a midnight Timestamp: YYYY-MM-DD
DateToText(n) ==
  Pad4(YearOf(n)) \o <<"-">> \o Pad2(MonthOf(n)) \o <<"-">> \o Pad2(DayOf(n))

IsDateText(t) ==
  /\ Len(t) = 10
  /\ t[5] = "-" /\ t[8] = "-"
  /\ IsDigits(SubSeq(t, 1, 4)) /\ IsDigits(SubSeq(t, 6, 7)) /\ IsDigits(SubSeq(t, 9, 10))
  /\ IsValidDate(TextToNat(SubSeq(t, 1, 4)), TextToNat(SubSeq(t, 6, 7)), TextToNat(SubSeq(t, 9, 10)))

TextToDate(t) ==
  MkDate(TextToNat(SubSeq(t, 1, 4)), TextToNat(SubSeq(t, 6, 7)), TextToNat(SubSeq(t, 9, 10)))

\* date + DateOffset(months=k): month arithmetic, day clamped to the month's end
AddMonths(n, k) ==
  LET idx == YearOf(n) * 12 + (MonthOf(n) - 1) + k
      y == idx \div 12
      m == (idx % 12) + 1
      dim == DaysInMonth(y, m)
      d == IF DayOf(n) > dim THEN dim ELSE DayOf(n)
  IN  MkDate(y, m, d)

EPOCH == MkDate(1970, 1, 1)

(***************************************************************************)
(* Schema                                                                  *)
(***************************************************************************)
Range(q) == {q[i] : i \in 1..Len(q)}

MONTH_NAMES == <<"January", "February", "March", "April", "May", "June",
                 "July", "August", "September", "October", "November", "December">>

ALL_COLUMNS ==
  <<"Bank", "Card Name", "Annual Fee", "Card Expiry (MM/YY)", "Month of Annual Fee",
    "Date Applied", "Date Approved", "Date Received Card",
    "Date Activated Card", "First Charge Date", "Image Filename", "Sort Order",
    "Notes", "Cancellation Date", "Re-apply Date", "Tags",
    "Bonus Offer", "Min Spend", "Min Spend Deadline", "Bonus Status",
    "Last 4 Digits", "Current Spend",
    "FeeWaivedCount", "FeePaidCount", "LastFeeActionYear", "LastFeeAction">>

DATE_COLUMNS ==
  {"Date Applied", "Date Approved", "Date Received Card",
   "Date Activated Card", "First Charge Date",
   "Cancellation Date", "Re-apply Date", "Min Spend Deadline"}

COLUMN_DTYPES ==
  [c \in Range(ALL_COLUMNS) |->
     IF c \in DATE_COLUMNS THEN "datetime64[ns]"
     ELSE IF c \in {"Annual Fee", "Min Spend", "Current Spend"} THEN "float"
     ELSE IF c \in {"Sort Order", "FeeWaivedCount", "FeePaidCount", "LastFeeActionYear"} THEN "int"
     ELSE "object"]

(***************************************************************************)
(* In-memory values: k is the kind, n the number (int, float in tenths,    *)
(* date as yyyymmdd), s the text of a string                               *)
(***************************************************************************)
Val(k, n, s) == [k |-> k, n |-> n, s |-> s]
VInt(n) == Val("int", n, <<>>)
VFloat(x) == Val("float", x, <<>>)
VStr(t) == Val("str", 0, t)
VDate(n) == Val("date", n, <<>>)
VNaN == Val("nan", 0, <<>>)
VNaT == Val("nat", 0, <<>>)
VErr == Val("err", 0, <<>>)

\* kinds a column of the given dtype may hold
KindsOf(dt) ==
  IF dt = "int" THEN {"int"}
  ELSE IF dt = "float" THEN {"float", "nan"}
  ELSE IF dt = "datetime64[ns]" THEN {"date", "nat"}
  ELSE {"str"}

DataFrame(cols, rows) == [cols |-> cols, rows |-> rows]

Ok(df) == [ok |-> TRUE, err |-> "", df |-> df]
Raise(e) == [ok |-> FALSE, err |-> e, df |-> DataFrame(<<>>, <<>>)]

\* pd.DataFrame(columns=ALL_COLUMNS).astype(COLUMN_DTYPES)
EmptyFrame == DataFrame(ALL_COLUMNS, <<>>)

(***************************************************************************)
(* The backing file: header line and data lines of text cells              *)
(***************************************************************************)
File(header, rows) == [exists |-> TRUE, header |-> header, rows |-> rows]
AbsentFile == [exists |-> FALSE, header |-> <<>>, rows |-> <<>>]
ZeroByteFile == File(<<>>, <<>>)

\* main.py module level: create the file with the header when it is absent
main_setup(f) == IF f.exists THEN f ELSE File(ALL_COLUMNS, <<>>)

\* cells read_csv takes for missing values
NA_VALUES == {<<>>, <<"NA">>, <<"NaN">>, <<"nan">>, <<"null">>, <<"None">>}

\* dtype read_csv infers for column c
InferKind(rows, c) ==
  LET cells == {rows[i][c] : i \in 1..Len(rows)}
      nonna == cells \ NA_VALUES
  IN  IF Len(rows) = 0 THEN "object"
      ELSE IF nonna = {} THEN "float"
      ELSE IF \A t \in nonna : IsIntText(t)
           THEN (IF cells \cap NA_VALUES = {} THEN "int" ELSE "float")
      ELSE IF \A t \in nonna : IsNumText(t) THEN "float"
      ELSE "object"

ParseCell(t, kind0) ==
  LET kind == kind0 IN
    IF t \in NA_VALUES THEN VNaN
    ELSE IF kind = "int" THEN VInt(TextToInt(t))
    ELSE IF kind = "float" THEN VFloat(TextToFloat(t))
    ELSE VStr(t)

read_csv(f) ==
  IF ~f.exists THEN Raise("FileNotFoundError")
  ELSE IF f.header = <<>> THEN Raise("EmptyDataError")
  ELSE Ok(DataFrame(f.header,
            [i \in 1..Len(f.rows) |->
               [c \in Range(f.header) |-> ParseCell(f.rows[i][c], InferKind(f.rows, c))]]))

FormatCell(v0) ==
  LET v == v0 IN
    IF v.k = "int" THEN IntToText(v.n)
    ELSE IF v.k = "float" THEN FloatToText(v.n)
    ELSE IF v.k = "date" THEN DateToText(v.n)
    ELSE IF v.k = "str" THEN v.s
    ELSE <<>>

\* df.to_csv(DATA_FILE, index=False)
to_csv(df) ==
  File(df.cols,
       [i \in 1..Len(df.rows) |-> [c \in Range(df.cols) |-> FormatCell(df.rows[i][c])]])

(***************************************************************************)
(* Coercions                                                               *)
(***************************************************************************)
\* pd.to_datetime(x, errors='coerce'); a number is taken as nanoseconds since
\* the epoch, which lands on the epoch day
to_datetime(v0) ==
  LET v == v0 IN
    IF v.k \in {"date", "nat"} THEN v
    ELSE IF v.k = "str" THEN (IF IsDateText(v.s) THEN VDate(TextToDate(v.s)) ELSE VNaT)
    ELSE IF v.k \in {"int", "float"} THEN VDate(EPOCH)
    ELSE VNaT

\* pd.to_numeric(x, errors='coerce')
to_numeric(v0) ==
  LET v == v0 IN
    IF v.k \in {"int", "float"} THEN v
    ELSE IF v.k = "str" /\ IsIntText(v.s) THEN VInt(TextToInt(v.s))
    ELSE IF v.k = "str" /\ IsFloatText(v.s) THEN VFloat(TextToFloat(v.s))
    ELSE VNaN

fillna(v0, d) == LET v == v0 IN IF v.k \in {"nan", "nat"} THEN d ELSE v

\* .astype(str)
astype_str(v0) ==
  LET v == v0 IN
    IF v.k = "str" THEN v
    ELSE IF v.k = "int" THEN VStr(IntToText(v.n))
    ELSE IF v.k = "float" THEN VStr(FloatToText(v.n))
    ELSE IF v.k = "date" THEN VStr(DateToText(v.n))
    ELSE VStr(<<"nan">>)

\* .astype(dt) of one value; VErr when pandas raises
astype(v0, dt) ==
  LET v == v0 IN
    IF dt = "object" THEN v
    ELSE IF dt = "float" THEN
      (IF v.k = "float" \/ v.k = "nan" THEN v
       ELSE IF v.k = "int" THEN VFloat(v.n * 10)
       ELSE IF v.k = "str" /\ IsNumText(v.s) THEN VFloat(TextToFloat(v.s))
       ELSE VErr)
    ELSE IF dt = "int" THEN
      (IF v.k = "int" THEN v
       ELSE IF v.k = "float" THEN VInt(FloatToInt(v.n))
       ELSE IF v.k = "str" /\ IsIntText(v.s) THEN VInt(TextToInt(v.s))
       ELSE VErr)
    ELSE
      (IF v.k \in {"date", "nat"} THEN v
       ELSE IF v.k = "nan" THEN VNaT
       ELSE IF v.k \in {"int", "float"} THEN VDate(EPOCH)
       ELSE IF v.k = "str" /\ IsDateText(v.s) THEN VDate(TextToDate(v.s))
       ELSE VErr)

\* .str.replace(r'\.0$', '', regex=True)
strip_dot0(v0) ==
  LET v == v0 IN
    IF Len(v.s) >= 2 /\ v.s[Len(v.s) - 1] = "." /\ v.s[Len(v.s)] = "0"
    THEN VStr(SubSeq(v.s, 1, Len(v.s) - 2))
    ELSE v

(***************************************************************************)
(* load_data of the dashboard (main.py) and of the bot (bot.py)            *)
(***************************************************************************)
\* the columns the migration block adds, in the order of its tests
MIGRATED ==
  <<"Sort Order", "Notes", "Cancellation Date", "Re-apply Date", "Tags",
    "Bonus Offer", "Min Spend", "Min Spend Deadline", "Bonus Status",
    "Last 4 Digits", "Current Spend", "FeeWaivedCount", "FeePaidCount",
    "LastFeeActionYear", "LastFeeAction">>

MigrateDefault_ZeroBased(c, i) ==
  IF c = "Sort Order" THEN VInt(i - 1)
  ELSE IF c \in DATE_COLUMNS THEN VNaT
  ELSE IF c \in {"Min Spend", "Current Spend"} THEN VFloat(0)
  ELSE IF c \in {"FeeWaivedCount", "FeePaidCount", "LastFeeActionYear"} THEN VInt(0)
  ELSE VStr(<<>>)

\* value the migration block gives row i of an added column
MigrateDefault(c, i) ==
  IF c = "Sort Order" THEN VInt(i)
  ELSE IF c \in DATE_COLUMNS THEN VNaT
  ELSE IF c \in {"Min Spend", "Current Spend"} THEN VFloat(0)
  ELSE IF c \in {"FeeWaivedCount", "FeePaidCount", "LastFeeActionYear"} THEN VInt(0)
  ELSE VStr(<<>>)

Migrate(df) ==
  LET have == Range(df.cols)
      added == SelectSeq(MIGRATED, LAMBDA c : c \notin have)
  IN  DataFrame(df.cols \o added,
        [i \in 1..Len(df.rows) |->
           [c \in have \cup Range(added) |->
              IF c \in have THEN df.rows[i][c] ELSE MigrateDefault(c, i)]])

\* the type coercion block, column by column
main_coerce(c, v0) ==
  LET v == v0 IN
    IF c \in DATE_COLUMNS THEN to_datetime(v)
    ELSE IF c = "Sort Order" THEN astype(fillna(to_numeric(v), VInt(99)), "int")
    ELSE IF c \in {"Notes", "Tags", "Bonus Offer", "Bonus Status", "LastFeeAction"}
         THEN astype_str(fillna(v, VStr(<<>>)))
    ELSE IF c = "Last 4 Digits" THEN strip_dot0(astype_str(fillna(v, VStr(<<>>))))
    ELSE IF c \in {"Min Spend", "Current Spend"}
         THEN astype(fillna(to_numeric(v), VFloat(0)), "float")
    ELSE IF c \in {"FeeWaivedCount", "FeePaidCount", "LastFeeActionYear"}
         THEN astype(fillna(to_numeric(v), VInt(0)), "int")
    ELSE v

HasErr(rows, cols) ==
  \E i \in 1..Len(rows) : \E c \in cols : rows[i][c] = VErr

main_load_data(f) ==
  LET r == read_csv(f)
  IN  IF ~r.ok
      THEN (IF r.err = "EmptyDataError" THEN Ok(EmptyFrame) ELSE r)
      ELSE
        LET m == Migrate(r.df)
            cols == Range(m.cols)
        IN  IF ~(DATE_COLUMNS \subseteq cols) THEN Raise("KeyError")
            ELSE IF ~(Range(ALL_COLUMNS) \subseteq cols) THEN Raise("KeyError")
            ELSE
              LET out == [i \in 1..Len(m.rows) |->
                            [c \in cols |-> astype(main_coerce(c, m.rows[i][c]), COLUMN_DTYPES[c])]]
              IN  IF HasErr(out, cols) THEN Raise("ValueError")
                  ELSE Ok(DataFrame(m.cols, out))

bot_load_data(f) ==
  IF ~f.exists THEN Ok(DataFrame(<<>>, <<>>))
  ELSE
    LET r == read_csv(f)
        cols == Range(r.df.cols)
    IN  IF ~r.ok THEN r
        ELSE IF ~(Range(ALL_COLUMNS) \subseteq cols) THEN Raise("KeyError")
        ELSE
          LET out == [i \in 1..Len(r.df.rows) |->
                        [c \in cols |-> astype(r.df.rows[i][c], COLUMN_DTYPES[c])]]
          IN  IF HasErr(out, cols) THEN Raise("ValueError")
              ELSE Ok(DataFrame(r.df.cols, out))

\* df[c] on a loaded frame succeeds
CanSelect(df, c) == c \in Range(df.cols)

\* every schema field present, every value of the declared type
SchemaConformant(df) ==
  /\ Range(ALL_COLUMNS) \subseteq Range(df.cols)
  /\ \A i \in 1..Len(df.rows) : \A c \in Range(ALL_COLUMNS) :
       df.rows[i][c].k \in KindsOf(COLUMN_DTYPES[c])

(***************************************************************************)
(* Record store specification: a file on disk (well formed or not) is      *)
(* loaded by either front end; a schema-conformant record set is saved and *)
(* loaded back                                                             *)
(***************************************************************************)
MaxMissing == 1

\* a well-formed line for card i, as to_csv writes it
BaseText(c, i) ==
  IF c = "Bank" THEN <<"DBS">>
  ELSE IF c = "Card Name" THEN <<"Altitude">>
  ELSE IF c = "Annual Fee" THEN <<"1", "9", "6", ".", "2">>
  ELSE IF c = "Card Expiry (MM/YY)" THEN <<"0", "5", "/", "2", "7">>
  ELSE IF c = "Month of Annual Fee" THEN <<"May">>
  ELSE IF c = "Date Applied" THEN DateToText(MkDate(2024, 1, 15))
  ELSE IF c = "Image Filename" THEN <<"default", ".", "png">>
  ELSE IF c = "Sort Order" THEN IntToText(i)
  ELSE IF c = "Tags" THEN <<"travel">>
  ELSE IF c = "Min Spend" THEN <<"5", "0", "0", ".", "0">>
  ELSE IF c = "Bonus Status" THEN <<"Not Started">>
  ELSE IF c = "Last 4 Digits" THEN <<"1", "2", "3", "4">>
  ELSE IF c = "Current Spend" THEN <<"0", ".", "0">>
  ELSE IF c \in {"FeeWaivedCount", "FeePaidCount", "LastFeeActionYear"} THEN <<"0">>
  ELSE <<>>

\* texts a hand-edited or stale file may hold in a cell
BadTexts == {<<>>, <<"garbage">>, <<"0", "1", "2", "3">>, <<"1", ".", "5">>}

HeaderWithout(missing) == SelectSeq(ALL_COLUMNS, LAMBDA c : c \notin missing)

BaseRows(n, missing) ==
  [i \in 1..n |-> [c \in Range(ALL_COLUMNS) \ missing |-> BaseText(c, i)]]

RECURSIVE SubsetsUpTo(_, _)
SubsetsUpTo(S, k) ==
  IF k = 0 THEN {{}}
  ELSE LET P == SubsetsUpTo(S, k - 1) IN P \cup {p \cup {c} : p \in P, c \in S}

MissingSets(k) == SubsetsUpTo(Range(ALL_COLUMNS), k)

\* a stale file of an older version lacks at most one of the migrated columns
StaleSets == {{}} \cup {{c} : c \in Range(MIGRATED)}

\* files of up to maxRows lines with up to maxMissing columns missing, and
\* stale files with one bad cell
StoreFiles(maxRows, maxMissing) ==
  {AbsentFile, ZeroByteFile}
  \cup { File(HeaderWithout(missing), BaseRows(n, missing)) :
           n \in 0..maxRows, missing \in MissingSets(maxMissing) }
  \cup UNION { UNION { { File(HeaderWithout(missing),
                              [BaseRows(n, missing) EXCEPT ![x[1]][x[2]] = x[3]]) :
                           x \in (1..n) \X (Range(ALL_COLUMNS) \ missing) \X BadTexts } :
                       n \in 1..maxRows } :
               missing \in StaleSets }

\* a schema-conformant record, as the Add handler builds it
SchemaRow(i, l4, notes, cdate) ==
  [c \in Range(ALL_COLUMNS) |->
     IF c = "Bank" THEN VStr(<<"DBS">>)
     ELSE IF c = "Card Name" THEN VStr(<<"Altitude">>)
     ELSE IF c = "Annual Fee" THEN VFloat(1962)
     ELSE IF c = "Card Expiry (MM/YY)" THEN VStr(<<"0", "5", "/", "2", "7">>)
     ELSE IF c = "Month of Annual Fee" THEN VStr(<<"May">>)
     ELSE IF c = "Date Applied" THEN VDate(MkDate(2024, 1, 15))
     ELSE IF c = "Image Filename" THEN VStr(<<"default", ".", "png">>)
     ELSE IF c = "Sort Order" THEN VInt(i)
     ELSE IF c = "Notes" THEN VStr(notes)
     ELSE IF c = "Cancellation Date" THEN cdate
     ELSE IF c = "Re-apply Date" THEN (IF cdate.k = "date" THEN VDate(AddMonths(cdate.n, 13)) ELSE VNaT)
     ELSE IF c = "Tags" THEN VStr(<<"travel", ",", "dining">>)
     ELSE IF c = "Bonus Status" THEN VStr(<<"Not Started">>)
     ELSE IF c = "Min Spend" THEN VFloat(5000)
     ELSE IF c = "Last 4 Digits" THEN VStr(l4)
     ELSE IF c = "Current Spend" THEN VFloat(125)
     ELSE IF COLUMN_DTYPES[c] = "int" THEN VInt(0)
     ELSE IF COLUMN_DTYPES[c] = "datetime64[ns]" THEN VNaT
     ELSE IF c = "Bonus Offer" THEN VStr(<<"miles">>)
     ELSE VStr(<<>>)]

SchemaRows ==
  { SchemaRow(1, l4, notes, cdate) :
      l4 \in {<<>>, <<"1", "2", "3", "4">>, <<"0", "1", "2", "3">>},
      notes \in {<<>>, <<"call", " ", "bank">>},
      cdate \in {VNaT, VDate(MkDate(2024, 1, 31))} }

\* record sets of 1..maxRows schema-conformant records, Sort Order 1..n
SchemaRecordSets(maxRows) ==
  UNION { { DataFrame(ALL_COLUMNS, [i \in 1..n |-> [q[i] EXCEPT !["Sort Order"] = VInt(i)]]) :
              q \in [1..n -> SchemaRows] } : n \in 1..maxRows }

NoResult == [by |-> "", op |-> "", inp |-> AbsentFile, r |-> Raise("")]

IdleIO ==
  /\ disk = <<>> /\ lock = "" /\ pc = <<>> /\ pos = <<>> /\ buf = <<>>
  /\ ver = <<>> /\ seen = {}

IdleHandlers == today = 0 /\ session = <<>> /\ chat = <<>> /\ tags = {} /\ backup_dir = {} /\ clock = 0 /\ last = <<>>

InitStore ==
  /\ \/ file \in StoreFiles(MaxRows, MaxMissing) /\ rs = EmptyFrame
     \/ file = AbsentFile /\ rs \in SchemaRecordSets(MaxRows)
  /\ result = NoResult
  /\ IdleHandlers
  /\ IdleIO

\* a dashboard script run: module-level setup, then load_data()
DashLoad ==
  /\ result = NoResult /\ rs = EmptyFrame
  /\ file' = main_setup(file)
  /\ result' = [by |-> "dash", op |-> "load", inp |-> file, r |-> main_load_data(file')]
  /\ UNCHANGED <<today, session, chat, last, rs, backup_dir, clock, tags, disk, lock, pc, pos, buf, ver, seen>>

\* a bot command: load_data()
BotLoad ==
  /\ result = NoResult /\ rs = EmptyFrame
  /\ result' = [by |-> "bot", op |-> "load", inp |-> file, r |-> bot_load_data(file)]
  /\ UNCHANGED <<file, today, session, chat, last, rs, backup_dir, clock, tags, disk, lock, pc, pos, buf, ver, seen>>

\* the dashboard saves a record set and the next script run loads it
DashSaveLoad ==
  /\ result = NoResult /\ rs # EmptyFrame
  /\ file' = to_csv(rs)
  /\ result' = [by |-> "dash", op |-> "roundtrip", inp |-> file', r |-> main_load_data(file')]
  /\ UNCHANGED <<today, session, chat, last, rs, backup_dir, clock, tags, disk, lock, pc, pos, buf, ver, seen>>

\* the bot saves a record set (save_data) and loads it back (load_data)
BotSaveLoad ==
  /\ result = NoResult /\ rs # EmptyFrame
  /\ file' = to_csv(rs)
  /\ result' = [by |-> "bot", op |-> "roundtrip", inp |-> file', r |-> bot_load_data(file')]
  /\ UNCHANGED <<today, session, chat, last, rs, backup_dir, clock, tags, disk, lock, pc, pos, buf, ver, seen>>

NextStore == DashLoad \/ BotLoad \/ DashSaveLoad \/ BotSaveLoad

SpecStore == InitStore /\ [][NextStore]_vars

(***************************************************************************)
(* Dashboard action handlers (main.py): each loads a fresh snapshot,       *)
(* mutates it and rewrites the whole file                                  *)
(***************************************************************************)
CardNames == <<"Altitude", "Rewards", "Prestige", "Summit", "Voyage">>

\* the last-4 text typed for each card; the first card's starts with a zero
Last4Of(name) ==
  IF name = "Altitude" THEN <<"0", "1", "2", "3">>
  ELSE IF name = "Rewards" THEN <<>>
  ELSE <<"4", "3", "2", "1">>

Todays == {MkDate(2024, 1, 31)}

IsCancelled(row) == row["Cancellation Date"].k # "nat"

\* positions of the rows with pd.isna(Cancellation Date)
ActiveIdx(df) == {i \in 1..Len(df.rows) : ~IsCancelled(df.rows[i])}

SortOrderOf(row) == row["Sort Order"].n

\* the script run that serves a click: module-level setup, then load_data()
Snapshot == main_load_data(main_setup(file))

\* re.match(r"^(0[1-9]|1[0-2])$", expiry_mm)
ValidMonth(mm) == Len(mm) = 2 /\ IsDigits(mm) /\ TextToNat(mm) \in 1..12

\* re.match(r"^\d{2}$", expiry_yy)
ValidYear(yy) == Len(yy) = 2 /\ IsDigits(yy)

\* not last_4_digits or re.match(r"^\d{4}$", last_4_digits)
ValidLast4(l4) == l4 = <<>> \/ (Len(l4) = 4 /\ IsDigits(l4))

ValidationError_SkipsYear(bank, card_name, mm, yy, l4) ==
  IF bank = <<>> \/ card_name = <<>> THEN "name"
  ELSE IF ~ValidMonth(mm) THEN "month"
  ELSE IF ~ValidLast4(l4) THEN "last4"
  ELSE ""

\* the first failed check of the submitted form, "" when all pass
ValidationError(bank, card_name, mm, yy, l4) ==
  IF bank = <<>> \/ card_name = <<>> THEN "name"
  ELSE IF ~ValidMonth(mm) THEN "month"
  ELSE IF ~ValidYear(yy) THEN "year"
  ELSE IF ~ValidLast4(l4) THEN "last4"
  ELSE ""

\* df['Sort Order'].max() + 1, or 1 when there is none or it is below 1
new_sort_order(df) ==
  LET orders == {SortOrderOf(df.rows[i]) : i \in 1..Len(df.rows)}
      max_sort == CHOOSE m \in orders : \A o \in orders : o <= m
  IN  IF orders = {} THEN 1
      ELSE IF max_sort < 1 THEN 1
      ELSE max_sort + 1

(***************************************************************************)
(* Tags: the registry file my_tags.json and the "Tags" cell of a card      *)
(***************************************************************************)
MaxTags == 2

\* tags_str.split(',')
RECURSIVE str_split(_)
str_split(s) ==
  IF \A i \in 1..Len(s) : s[i] # ","
  THEN <<s>>
  ELSE LET i == CHOOSE i \in 1..Len(s) : s[i] = "," /\ \A j \in 1..(i - 1) : s[j] # ","
       IN  <<SubSeq(s, 1, i - 1)>> \o str_split(SubSeq(s, i + 1, Len(s)))

\* ",".join(list)
RECURSIVE str_join(_)
str_join(list) ==
  IF list = <<>> THEN <<>>
  ELSE IF Len(list) = 1 THEN list[1]
  ELSE list[1] \o <<",">> \o str_join(Tail(list))

\* t.strip()
RECURSIVE str_strip(_)
str_strip(t) ==
  IF t = <<>> THEN <<>>
  ELSE IF t[1] = " " THEN str_strip(Tail(t))
  ELSE IF t[Len(t)] = " " THEN str_strip(SubSeq(t, 1, Len(t) - 1))
  ELSE t

\* [f(x) for x in list if keep(x)] for the two comprehensions of the tag code
RECURSIVE stripped_nonempty(_)
stripped_nonempty(list) ==
  IF list = <<>> THEN <<>>
  ELSE (IF str_strip(list[1]) # <<>> THEN <<str_strip(list[1])>> ELSE <<>>)
         \o stripped_nonempty(Tail(list))

RECURSIVE not_in(_, _)
not_in(list, S) ==
  IF list = <<>> THEN <<>>
  ELSE (IF list[1] \notin S THEN <<list[1]>> ELSE <<>>) \o not_in(Tail(list), S)

\* load_tags(): the sorted list without duplicates, carried as a set
load_tags(registry) == registry

\* save_tags(tags_list): strips each tag, drops the empty ones and duplicates
save_tags(tags_list) == {str_strip(t) : t \in tags_list} \ {<<>>}

\* remove_deleted_tags of the tag manager's cascade
remove_deleted_tags(tags_str, tags_to_delete) ==
  str_join(not_in(stripped_nonempty(str_split(tags_str)), tags_to_delete))

\* default_tags of the edit form: [t for t in default_tags_str.split(',') if t]
default_tags(tags_str) == not_in(str_split(tags_str), {<<>>})

\* st.multiselect("Tags", options, default): the default, or up to MaxTags
\* distinct options in the order the user picked them
TagSelections(options, default) ==
  {default} \cup
    {sel \in UNION {[1..n -> options] : n \in 0..MaxTags} :
       \A i, j \in 1..Len(sel) : i # j => sel[i] # sel[j]}

\* what the user may type as a new tag name
TagInputs == {<<"travel">>, <<" ", "dining">>, <<"a", ",", "b">>}

\* the new_card dictionary, typed by astype(COLUMN_DTYPES)
NewCard(bank, card_name, mm, yy, l4, sort, tags_str) ==
  [c \in Range(ALL_COLUMNS) |->
     IF c = "Bank" THEN VStr(bank)
     ELSE IF c = "Card Name" THEN VStr(card_name)
     ELSE IF c = "Annual Fee" THEN VFloat(1962)
     ELSE IF c = "Card Expiry (MM/YY)" THEN VStr(mm \o <<"/">> \o yy)
     ELSE IF c = "Month of Annual Fee" THEN VStr(<<MONTH_NAMES[TextToNat(mm)]>>)
     ELSE IF c = "Date Applied" THEN VDate(MkDate(2024, 1, 15))
     ELSE IF c = "Image Filename" THEN VStr(<<"default", ".", "png">>)
     ELSE IF c = "Sort Order" THEN VInt(sort)
     ELSE IF c = "Bonus Offer" THEN VStr(<<"miles">>)
     ELSE IF c = "Min Spend" THEN VFloat(5000)
     ELSE IF c = "Bonus Status" THEN VStr(<<"Not Started">>)
     ELSE IF c = "Last 4 Digits" THEN VStr(l4)
     ELSE IF c = "Current Spend" THEN VFloat(0)
     ELSE IF c = "Tags" THEN VStr(tags_str)
     ELSE IF COLUMN_DTYPES[c] = "int" THEN VInt(0)
     ELSE IF COLUMN_DTYPES[c] = "datetime64[ns]" THEN VNaT
     ELSE VStr(<<>>)]

InitHandlers ==
  /\ file = File(ALL_COLUMNS, <<>>)
  /\ today \in Todays
  /\ session = [show_sort_form |-> FALSE, duplicate_sort_numbers |-> {}]
  /\ chat = <<>>
  /\ tags = {}
  /\ backup_dir = {} /\ clock = 0
  /\ last = [op |-> "start", arg |-> <<>>]
  /\ rs = EmptyFrame /\ result = NoResult
  /\ IdleIO

\* what the user may type in the add form
MonthInputs == {<<"0", "5">>, <<"1", "3">>}
YearInputs == {<<"2", "7">>}
BankInputs == {<<"DBS">>, <<>>}

\* the first card name not yet in the frame
UnusedNames(df) ==
  {k \in 1..MaxCards : \A i \in 1..Len(df.rows) : df.rows[i]["Card Name"].s # <<CardNames[k]>>}

\* show_add_card_form, "Add This Card" submitted for a custom card
AddCard ==
  \E snap \in {Snapshot} :
  LET df == snap.df
      sort == new_sort_order(df)
  IN  /\ snap.ok
      /\ Len(df.rows) < MaxCards
      /\ sort <= MaxOrder + 1
      /\ \E k \in UnusedNames(df), bank \in BankInputs, mm \in MonthInputs, yy \in YearInputs,
            selected_tags \in TagSelections(load_tags(tags), <<>>) :
           /\ \A j \in UnusedNames(df) : k <= j
           /\ IF ValidationError(bank, <<CardNames[k]>>, mm, yy, Last4Of(CardNames[k])) = ""
              THEN /\ file' = to_csv(DataFrame(df.cols,
                                Append(df.rows, NewCard(bank, <<CardNames[k]>>, mm, yy,
                                                        Last4Of(CardNames[k]), sort,
                                                        str_join(selected_tags)))))
                   /\ last' = [op |-> "add", arg |-> <<CardNames[k]>>]
              ELSE /\ file' = main_setup(file)
                   /\ last' = [op |-> "add_rejected", arg |-> <<CardNames[k]>>,
                               why |-> ValidationError(bank, <<CardNames[k]>>, mm, yy, Last4Of(CardNames[k]))]
      /\ UNCHANGED <<today, session, chat, rs, backup_dir, clock, tags, result, disk, lock, pc, pos, buf, ver, seen>>

\* show_dashboard, the button that opens the sort page
OpenSortForm ==
  /\ ~session.show_sort_form
  /\ session' = [session EXCEPT !.show_sort_form = TRUE, !.duplicate_sort_numbers = {}]
  /\ last' = [op |-> "open_sort", arg |-> <<>>]
  /\ file' = main_setup(file)
  /\ UNCHANGED <<today, chat, rs, backup_dir, clock, tags, result, disk, lock, pc, pos, buf, ver, seen>>

\* the sort form's Cancel button, or the sidebar's Home button
LeaveSortForm ==
  /\ session.show_sort_form
  /\ session' = [session EXCEPT !.show_sort_form = FALSE, !.duplicate_sort_numbers = {}]
  /\ last' = [op |-> "leave_sort", arg |-> <<>>]
  /\ file' = main_setup(file)
  /\ UNCHANGED <<today, chat, rs, backup_dir, clock, tags, result, disk, lock, pc, pos, buf, ver, seen>>

Duplicates_None(active, ord) == {}

Duplicates_MoreThanTwice(active, ord) ==
  {v \in {ord[i] : i \in active} : Cardinality({i \in active : ord[i] = v}) > 2}

\* Counter(all_new_orders): the numbers that appear more than once
Duplicates(active, ord) ==
  {v \in {ord[i] : i \in active} : Cardinality({i \in active : ord[i] = v}) > 1}

\* show_sort_order_form, "Save Order" submitted with ord[i] typed for active
\* row i (number_input, min_value=1)
SaveOrder ==
  /\ session.show_sort_form
  /\ \E snap \in {Snapshot} :
       LET df == snap.df
           active == ActiveIdx(df)
       IN  /\ snap.ok
           /\ \A i \in active : SortOrderOf(df.rows[i]) >= 1
           /\ \E ord \in [active -> 1..MaxOrder] :
                IF Duplicates(active, ord) # {}
                THEN /\ session' = [session EXCEPT !.duplicate_sort_numbers = Duplicates(active, ord)]
                     /\ file' = main_setup(file)
                     /\ last' = [op |-> "reorder_rejected", arg |-> ord]
                ELSE /\ session' = [session EXCEPT !.show_sort_form = FALSE, !.duplicate_sort_numbers = {}]
                     /\ file' = to_csv(DataFrame(df.cols,
                                  [i \in 1..Len(df.rows) |->
                                     IF i \in active
                                     THEN [df.rows[i] EXCEPT !["Sort Order"] = VInt(ord[i])]
                                     ELSE df.rows[i]]))
                     /\ last' = [op |-> "reorder", arg |-> ord]
           /\ UNCHANGED <<today, chat, rs, backup_dir, clock, tags, result, disk, lock, pc, pos, buf, ver, seen>>

\* show_dashboard, "Confirm Cancel" on row index (the time of day of
\* pd.to_datetime('today') is not carried)
ConfirmCancel ==
  /\ ~session.show_sort_form
  /\ \E snap \in {Snapshot} :
       LET df == snap.df
       IN  /\ snap.ok
           /\ \E index \in ActiveIdx(df) :
                /\ file' = to_csv(DataFrame(df.cols,
                             [df.rows EXCEPT ![index] =
                                [@ EXCEPT !["Cancellation Date"] = VDate(today),
                                          !["Re-apply Date"] = VDate(AddMonths(today, 13))]]))
                /\ last' = [op |-> "cancel", arg |-> <<index>>]
           /\ UNCHANGED <<today, session, chat, rs, backup_dir, clock, tags, result, disk, lock, pc, pos, buf, ver, seen>>

ReactivatedRow_KeepsReapply(row) ==
  [row EXCEPT !["Cancellation Date"] = VNaT,
              !["LastFeeActionYear"] = VInt(0),
              !["LastFeeAction"] = VStr(<<>>)]

ReactivatedRow_KeepsFeeAction(row) ==
  [row EXCEPT !["Cancellation Date"] = VNaT,
              !["Re-apply Date"] = VNaT]

\* the four assignments of the "Re-activate" button
ReactivatedRow(row) ==
  [row EXCEPT !["Cancellation Date"] = VNaT,
              !["Re-apply Date"] = VNaT,
              !["LastFeeActionYear"] = VInt(0),
              !["LastFeeAction"] = VStr(<<>>)]

\* show_dashboard, "Re-activate" on row index
Reactivate ==
  /\ ~session.show_sort_form
  /\ \E snap \in {Snapshot} :
       LET df == snap.df
       IN  /\ snap.ok
           /\ \E index \in (1..Len(df.rows)) \ ActiveIdx(df) :
                /\ file' = to_csv(DataFrame(df.cols,
                             [df.rows EXCEPT ![index] = ReactivatedRow(@)]))
                /\ last' = [op |-> "reactivate", arg |-> <<index>>]
           /\ UNCHANGED <<today, session, chat, rs, backup_dir, clock, tags, result, disk, lock, pc, pos, buf, ver, seen>>

\* df.drop(index).reset_index(drop=True)
DropRow(rows, index) ==
  [i \in 1..(Len(rows) - 1) |-> IF i < index THEN rows[i] ELSE rows[i + 1]]

\* show_dashboard, "CONFIRM DELETE" on row index
ConfirmDelete ==
  /\ ~session.show_sort_form
  /\ \E snap \in {Snapshot} :
       LET df == snap.df
       IN  /\ snap.ok
           /\ \E index \in 1..Len(df.rows) :
                /\ file' = to_csv(DataFrame(df.cols, DropRow(df.rows, index)))
                /\ last' = [op |-> "delete", arg |-> <<index>>]
           /\ UNCHANGED <<today, session, chat, rs, backup_dir, clock, tags, result, disk, lock, pc, pos, buf, ver, seen>>

Next ==
  \/ AddCard
  \/ OpenSortForm
  \/ LeaveSortForm
  \/ SaveOrder
  \/ ConfirmCancel
  \/ Reactivate
  \/ ConfirmDelete

Spec == InitHandlers /\ [][Next]_vars

(***************************************************************************)
(* Annual fee handling.  The dashboard lists the cards whose fee month is  *)
(* this month and offers "I Waived This Fee" / "I Paid This Fee" while the *)
(* card's LastFeeActionYear is not the current year; the bot's weekly job  *)
(* sends the same two buttons into the chat, where they stay.  chat holds  *)
(* the buttons sent so far and the bot's context.user_data.  A row's index *)
(* i is pandas' label i - 1.                                               *)
(***************************************************************************)
MaxFeeActions == 2

\* the days on which the handlers run
Calendar == <<MkDate(2024, 4, 30), MkDate(2024, 5, 10), MkDate(2024, 5, 31), MkDate(2025, 5, 10)>>

current_month_name(d) == MONTH_NAMES[MonthOf(d)]

next_month_name(d) == MONTH_NAMES[(MonthOf(d) % 12) + 1]

\* track_buttons holds the buttons of the /track menus sent so far (text and
\* callback index); pressed_text is the text of the button pressed last
NoChat == [fee_buttons |-> {}, track_buttons |-> {}, info_buttons |-> {},
           tracking_card_index |-> 0, awaiting_spend_input |-> FALSE,
           pressed_text |-> <<>>,
           view_mode |-> "text", table_width |-> 32, awaiting_custom_width |-> FALSE]

\* the file after one card, with its fee in May and a welcome bonus to be
\* earned by the end of June, was added on the add form
OneCardFile ==
  to_csv(DataFrame(ALL_COLUMNS,
           <<[NewCard(<<"DBS">>, <<CardNames[1]>>, <<"0", "5">>, <<"2", "7">>,
                      Last4Of(CardNames[1]), 1, <<>>)
                EXCEPT !["Min Spend Deadline"] = VDate(MkDate(2024, 6, 30))]>>))

InitFees ==
  /\ file = OneCardFile
  /\ today = Calendar[1]
  /\ session = [show_sort_form |-> FALSE, duplicate_sort_numbers |-> {}, show_cancelled |-> TRUE]
  /\ chat = NoChat
  /\ tags = {}
  /\ backup_dir = {} /\ clock = 0
  /\ last = [op |-> "start", arg |-> <<>>]
  /\ rs = EmptyFrame /\ result = NoResult
  /\ IdleIO

\* the clock moves on
NextDay ==
  /\ \E k \in 1..(Len(Calendar) - 1) : today = Calendar[k] /\ today' = Calendar[k + 1]
  /\ last' = [op |-> "day", arg |-> <<>>]
  /\ file' = main_setup(file)
  /\ UNCHANGED <<session, chat, rs, backup_dir, clock, tags, result, disk, lock, pc, pos, buf, ver, seen>>

\* the sidebar's "Show Cancelled Cards" checkbox
ToggleShowCancelled ==
  /\ ~session.show_sort_form
  /\ session' = [session EXCEPT !.show_cancelled = ~@]
  /\ last' = [op |-> "toggle", arg |-> <<>>]
  /\ file' = main_setup(file)
  /\ UNCHANGED <<today, chat, rs, backup_dir, clock, tags, result, disk, lock, pc, pos, buf, ver, seen>>

\* show_dashboard: the rows the page is built from
cards_to_display(df, show_cancelled) ==
  IF show_cancelled THEN 1..Len(df.rows) ELSE ActiveIdx(df)

cards_due_this_month(df, d, show_cancelled) ==
  {i \in cards_to_display(df, show_cancelled) :
     df.rows[i]["Month of Annual Fee"].s = <<current_month_name(d)>>}

cards_due_next_month(df, d, show_cancelled) ==
  {i \in cards_to_display(df, show_cancelled) :
     df.rows[i]["Month of Annual Fee"].s = <<next_month_name(d)>>}

FeeStatus_NeverResets(row, d) ==
  IF row["LastFeeActionYear"].n # 0 THEN "taken" ELSE "needed"

\* the fee status shown for a row: "taken" when LastFeeActionYear is the
\* current year, else "needed"
FeeStatus(row, d) ==
  IF row["LastFeeActionYear"].n = YearOf(d) THEN "taken" ELSE "needed"

FeeCounter(K) == IF K = "Waived" THEN "FeeWaivedCount" ELSE "FeePaidCount"

ApplyFeeAction_CountsOnce(row, K, current_year) ==
  [row EXCEPT ![FeeCounter(K)] = VInt(1),
              !["LastFeeActionYear"] = VInt(current_year),
              !["LastFeeAction"] = VStr(<<K>>)]

\* the counter is raised by one, the year and the kind are recorded
ApplyFeeAction(row, K, current_year) ==
  [row EXCEPT ![FeeCounter(K)] = VInt(@.n + 1),
              !["LastFeeActionYear"] = VInt(current_year),
              !["LastFeeAction"] = VStr(<<K>>)]

FeeActionsOf(row) == row["FeeWaivedCount"].n + row["FeePaidCount"].n

\* show_dashboard, "I Waived This Fee" / "I Paid This Fee" on row index
FeeAction ==
  /\ ~session.show_sort_form
  /\ \E snap \in {Snapshot} :
       LET df == snap.df
       IN  /\ snap.ok
           /\ \E index \in cards_due_this_month(df, today, session.show_cancelled),
                 K \in {"Waived", "Paid"} :
                /\ FeeStatus(df.rows[index], today) = "needed"
                /\ FeeActionsOf(df.rows[index]) < MaxFeeActions
                /\ file' = to_csv(DataFrame(df.cols,
                             [df.rows EXCEPT ![index] = ApplyFeeAction(@, K, YearOf(today))]))
                /\ last' = [op |-> "fee", arg |-> <<index, K>>, by |-> "dash", out |-> "saved"]
           /\ UNCHANGED <<today, session, chat, rs, backup_dir, clock, tags, result, disk, lock, pc, pos, buf, ver, seen>>

\* bot.py send_weekly_notifications, fee part: one message with the
\* waived_/paid_/ignore_ buttons per active card that is due and not handled
due_cards(df, d) ==
  {i \in ActiveIdx(df) :
     /\ df.rows[i]["Month of Annual Fee"].s = <<current_month_name(d)>>
     /\ FeeStatus(df.rows[i], d) = "needed"}

SendWeeklyFees ==
  /\ \E r \in {bot_load_data(file)} :
       /\ r.ok
       /\ CanSelect(r.df, "Cancellation Date")
       /\ due_cards(r.df, today) # {}
       /\ chat' = [chat EXCEPT !.fee_buttons = @ \cup due_cards(r.df, today)]
  /\ last' = [op |-> "weekly", arg |-> <<>>]
  /\ UNCHANGED <<file, today, session, rs, backup_dir, clock, tags, result, disk, lock, pc, pos, buf, ver, seen>>

\* bot.py button_handler, callback data waived_<idx> / paid_<idx> from a
\* button in the chat: df.loc[card_index, ...] raises KeyError when the
\* label is not in the frame, and nothing catches it
BotFeeAction ==
  /\ \E card_index \in chat.fee_buttons, K \in {"Waived", "Paid"} :
       \E r \in {bot_load_data(file)} :
         IF r.ok /\ card_index \in 1..Len(r.df.rows)
         THEN /\ FeeActionsOf(r.df.rows[card_index]) < MaxFeeActions
              /\ file' = to_csv(DataFrame(r.df.cols,
                           [r.df.rows EXCEPT ![card_index] = ApplyFeeAction(@, K, YearOf(today))]))
              /\ last' = [op |-> "fee", arg |-> <<card_index, K>>, by |-> "bot", out |-> "saved"]
         ELSE /\ file' = file
              /\ last' = [op |-> "fee", arg |-> <<card_index, K>>, by |-> "bot", out |-> "fault"]
  /\ UNCHANGED <<today, session, chat, rs, backup_dir, clock, tags, result, disk, lock, pc, pos, buf, ver, seen>>

\* bot.py check_fees: the active cards due this month
this_month_cards(df, d) ==
  {i \in ActiveIdx(df) : df.rows[i]["Month of Annual Fee"].s = <<current_month_name(d)>>}

\* bot.py portfolio_stats: df[c].sum() over all rows, cancelled included
RECURSIVE column_sum(_, _)
column_sum(rows, c) ==
  IF rows = <<>> THEN 0 ELSE rows[1][c].n + column_sum(Tail(rows), c)

\* the fee status each front end shows for the cards it lists as due this
\* month
DashFeeView(f, d, show_cancelled) ==
  LET df == main_load_data(main_setup(f)).df
  IN  [i \in cards_due_this_month(df, d, show_cancelled) |-> FeeStatus(df.rows[i], d)]

BotFeeView(f, d) ==
  LET df == bot_load_data(f).df
  IN  [i \in this_month_cards(df, d) |-> FeeStatus(df.rows[i], d)]

NextFees ==
  \/ NextDay
  \/ ToggleShowCancelled
  \/ FeeAction
  \/ SendWeeklyFees
  \/ BotFeeAction
  \/ ConfirmCancel
  \/ Reactivate

SpecFees == InitFees /\ [][NextFees]_vars

(***************************************************************************)
(* Welcome bonus tracking and the edit form.  Money is in tenths.  The     *)
(* dashboard's tracker lists the displayed cards that have a deadline not  *)
(* yet passed and a status of Not Started or In Progress; the bot's /track *)
(* menu sends one track_select button per such active card, and the next   *)
(* text message is the amount to add.                                      *)
(***************************************************************************)
MaxSpendFactor == 2

STATUS_OPTIONS == <<"Not Started", "In Progress", "Met", "Received">>

IsTracked(row) ==
  /\ row["Min Spend Deadline"].k = "date"
  /\ row["Bonus Status"].s \in {<<"Not Started">>, <<"In Progress">>}

\* the number of the day n, counted from 1970-01-01
DayNumber(n) ==
  LET y == IF MonthOf(n) <= 2 THEN YearOf(n) - 1 ELSE YearOf(n)
      era == y \div 400
      yoe == y - era * 400
      mp == (MonthOf(n) + 9) % 12
      doy == (153 * mp + 2) \div 5 + DayOf(n) - 1
      doe == yoe * 365 + yoe \div 4 - yoe \div 100 + doy
  IN  era * 146097 + doe - 719468

\* (deadline - today).days: the deadline is a midnight, today is the clock
\* some time after midnight of day d, and .days rounds down
days_left(deadline, d) == DayNumber(deadline) - DayNumber(d) - 1

\* show_dashboard: active_bonuses_df, Days Left >= 0
active_bonuses(df, d, show_cancelled) ==
  {i \in cards_to_display(df, show_cancelled) :
     IsTracked(df.rows[i]) /\ days_left(df.rows[i]["Min Spend Deadline"].n, d) >= 0}

\* current_spend >= min_spend and min_spend > 0
SpendIsMet(spend, min_spend) == spend >= min_spend /\ min_spend > 0

\* totals typed into the tracker's number_input (0 .. 1.5 * min_spend)
SpendInputs(min_spend) == {x \in {0, 3000, 5000, 7500} : 2 * x <= 3 * min_spend}

\* messages typed to the bot while it waits for an amount
AmountInputs == {<<"3", "0", "0">>, <<"$", "5", "0", "0">>, <<"-", "3", "0", "0">>, <<"lunch">>}

\* text.replace('$', '').replace(',', '')
RECURSIVE clean_text(_)
clean_text(text) ==
  IF text = <<>> THEN <<>>
  ELSE (IF text[1] \in {"$", ","} THEN <<>> ELSE <<text[1]>>) \o clean_text(Tail(text))

InitBonus ==
  /\ file = OneCardFile
  /\ today = Calendar[1]
  /\ session = [show_sort_form |-> FALSE, duplicate_sort_numbers |-> {}, show_cancelled |-> TRUE]
  /\ chat = NoChat
  /\ tags = {}
  /\ backup_dir = {} /\ clock = 0
  /\ last = [op |-> "start", arg |-> <<>>]
  /\ rs = EmptyFrame /\ result = NoResult
  /\ IdleIO

\* show_dashboard, the tracker's "Update" form on row index: the status goes
\* from Not Started to In Progress when the new total is positive
UpdateSpend ==
  /\ ~session.show_sort_form
  /\ \E snap \in {Snapshot} :
       LET df == snap.df
       IN  /\ snap.ok
           /\ \E index \in active_bonuses(df, today, session.show_cancelled) :
                LET card == df.rows[index]
                IN  /\ ~SpendIsMet(card["Current Spend"].n, card["Min Spend"].n)
                    /\ \E new_spend \in SpendInputs(card["Min Spend"].n) :
                         /\ file' = to_csv(DataFrame(df.cols,
                                      [df.rows EXCEPT ![index] =
                                         [@ EXCEPT !["Bonus Status"] =
                                                     IF card["Bonus Status"].s = <<"Not Started">> /\ new_spend > 0
                                                     THEN VStr(<<"In Progress">>) ELSE @,
                                                   !["Current Spend"] = VFloat(new_spend)]]))
                         /\ last' = [op |-> "spend", arg |-> <<index, new_spend>>, by |-> "dash",
                                     out |-> "saved", was |-> card["Bonus Status"].s]
           /\ UNCHANGED <<today, session, chat, rs, backup_dir, clock, tags, result, disk, lock, pc, pos, buf, ver, seen>>

\* show_dashboard, "Mark Bonus as 'Met'" on row index
MarkMet ==
  /\ ~session.show_sort_form
  /\ \E snap \in {Snapshot} :
       LET df == snap.df
       IN  /\ snap.ok
           /\ \E index \in active_bonuses(df, today, session.show_cancelled) :
                /\ SpendIsMet(df.rows[index]["Current Spend"].n, df.rows[index]["Min Spend"].n)
                /\ file' = to_csv(DataFrame(df.cols,
                             [df.rows EXCEPT ![index] = [@ EXCEPT !["Bonus Status"] = VStr(<<"Met">>)]]))
                /\ last' = [op |-> "mark_met", arg |-> <<index>>]
           /\ UNCHANGED <<today, session, chat, rs, backup_dir, clock, tags, result, disk, lock, pc, pos, buf, ver, seen>>

\* bot.py track_spend_menu and check_bonuses: the active cards with a bonus
\* to track
track_cards(df) == {i \in ActiveIdx(df) : IsTracked(df.rows[i])}

\* bot.py send_weekly_notifications, bonus part: a warning per tracked card
\* whose deadline is 0 to 30 days away
weekly_bonus_cards(df, d) ==
  {i \in track_cards(df) :
     days_left(df.rows[i]["Min Spend Deadline"].n, d) \in 0..30}

TrackMenu ==
  /\ \E r \in {bot_load_data(file)} :
       /\ r.ok
       /\ CanSelect(r.df, "Cancellation Date")
       /\ track_cards(r.df) # {}
       /\ chat' = [chat EXCEPT !.track_buttons = @ \cup
                      {[idx |-> i, text |-> r.df.rows[i]["Card Name"].s] : i \in track_cards(r.df)}]
  /\ last' = [op |-> "track_menu", arg |-> <<>>]
  /\ UNCHANGED <<file, today, session, rs, backup_dir, clock, tags, result, disk, lock, pc, pos, buf, ver, seen>>

\* bot.py button_handler, callback data track_select_<idx>
TrackSelect ==
  /\ \E button \in chat.track_buttons :
       /\ chat' = [chat EXCEPT !.tracking_card_index = button.idx, !.awaiting_spend_input = TRUE,
                               !.pressed_text = button.text]
       /\ last' = [op |-> "track_select", arg |-> <<button.idx>>]
  /\ UNCHANGED <<file, today, session, rs, backup_dir, clock, tags, result, disk, lock, pc, pos, buf, ver, seen>>

\* bot.py handle_message while awaiting_spend_input: the amount is added to
\* the stored total, and the status is set to Met when the total reaches a
\* positive Min Spend and the status is not Met.  A KeyError of
\* df.loc[card_index, ...] is not caught.
BotSpend ==
  /\ ~chat.awaiting_custom_width
  /\ chat.awaiting_spend_input
  /\ \E text \in AmountInputs :
       \E r \in {bot_load_data(file)} :
         LET card_index == chat.tracking_card_index
             amount_added == TextToFloat(clean_text(text))
         IN  IF ~IsNumText(clean_text(text))
             THEN /\ file' = file
                  /\ chat' = chat
                  /\ last' = [op |-> "spend_rejected", arg |-> <<card_index>>, by |-> "bot",
                              out |-> "invalid", was |-> text]
             ELSE IF r.ok /\ card_index \in 1..Len(r.df.rows)
             THEN LET card == r.df.rows[card_index]
                      new_spend == card["Current Spend"].n + amount_added
                      min_spend == card["Min Spend"].n
                  IN  /\ new_spend <= MaxSpendFactor * min_spend
                      /\ new_spend >= 0 - MaxSpendFactor * min_spend
                      /\ file' = to_csv(DataFrame(r.df.cols,
                                   [r.df.rows EXCEPT ![card_index] =
                                      [@ EXCEPT !["Current Spend"] = VFloat(new_spend),
                                                !["Bonus Status"] =
                                                  IF SpendIsMet(new_spend, min_spend) /\ card["Bonus Status"].s # <<"Met">>
                                                  THEN VStr(<<"Met">>) ELSE @]]))
                      /\ chat' = [chat EXCEPT !.tracking_card_index = 0, !.awaiting_spend_input = FALSE,
                                              !.pressed_text = <<>>]
                      /\ last' = [op |-> "spend", arg |-> <<card_index, new_spend>>, by |-> "bot",
                                  out |-> "saved", was |-> card["Bonus Status"].s]
             ELSE /\ file' = file
                  /\ chat' = chat
                  /\ last' = [op |-> "spend", arg |-> <<card_index, amount_added>>, by |-> "bot",
                              out |-> "fault", was |-> <<>>]
  /\ UNCHANGED <<today, session, rs, backup_dir, clock, tags, result, disk, lock, pc, pos, buf, ver, seen>>

\* what the user may type in the edit form, which is pre-filled with the
\* card's stored values
EditInputs(field, default) ==
  {default} \cup
    (IF field = "Expiry MM" THEN {<<"1", "1">>, <<"1", "3">>}
     ELSE IF field = "Expiry YY" THEN {<<"7">>}
     ELSE IF field = "Last 4 Digits" THEN {<<"4", "3", "2", "1">>}
     ELSE IF field = "Bank" THEN {<<>>}
     ELSE {<<"Received">>})

\* card_data["Card Expiry (MM/YY)"].split('/')
ExpiryMM(expiry) == SubSeq(expiry, 1, 2)
ExpiryYY(expiry) == SubSeq(expiry, 4, Len(expiry))

EditedRow_KeepsFeeMonth(row, bank, mm, yy, l4, status, tags_str) ==
  [row EXCEPT !["Bank"] = VStr(bank),
              !["Card Expiry (MM/YY)"] = VStr(mm \o <<"/">> \o yy),
              !["Tags"] = VStr(tags_str),
              !["Bonus Status"] = VStr(status),
              !["Last 4 Digits"] = VStr(l4)]

\* the assignments of the edit form for the fields the user changed
EditedRow(row, bank, mm, yy, l4, status, tags_str) ==
  [row EXCEPT !["Bank"] = VStr(bank),
              !["Card Expiry (MM/YY)"] = VStr(mm \o <<"/">> \o yy),
              !["Month of Annual Fee"] = VStr(<<MONTH_NAMES[TextToNat(mm)]>>),
              !["Tags"] = VStr(tags_str),
              !["Bonus Status"] = VStr(status),
              !["Last 4 Digits"] = VStr(l4)]

\* show_edit_form: "Edit" on row card_index, then "Save Changes".  The form
\* renders only when every default of the tag multiselect is one of its options.
EditCard ==
  /\ ~session.show_sort_form
  /\ \E snap \in {Snapshot} :
       LET all_cards_df == snap.df
       IN  /\ snap.ok
           /\ \E card_index \in 1..Len(all_cards_df.rows) :
                LET card_data == all_cards_df.rows[card_index]
                IN  /\ \A t \in Range(default_tags(card_data["Tags"].s)) : t \in load_tags(tags)
                    /\ \E bank \in EditInputs("Bank", card_data["Bank"].s),
                       mm \in EditInputs("Expiry MM", ExpiryMM(card_data["Card Expiry (MM/YY)"].s)),
                       yy \in EditInputs("Expiry YY", ExpiryYY(card_data["Card Expiry (MM/YY)"].s)),
                       l4 \in EditInputs("Last 4 Digits", card_data["Last 4 Digits"].s),
                       status \in EditInputs("Bonus Status", card_data["Bonus Status"].s),
                       selected_tags \in TagSelections(load_tags(tags),
                                                       default_tags(card_data["Tags"].s)) :
                      LET why == ValidationError(bank, card_data["Card Name"].s, mm, yy, l4)
                      IN  IF why = ""
                          THEN /\ file' = to_csv(DataFrame(all_cards_df.cols,
                                            [all_cards_df.rows EXCEPT ![card_index] =
                                               EditedRow(@, bank, mm, yy, l4, status,
                                                         str_join(selected_tags))]))
                               /\ last' = [op |-> "edit", arg |-> <<card_index>>, why |-> why]
                          ELSE /\ file' = main_setup(file)
                               /\ last' = [op |-> "edit_rejected", arg |-> <<card_index>>, why |-> why]
           /\ UNCHANGED <<today, session, chat, rs, backup_dir, clock, tags, result, disk, lock, pc, pos, buf, ver, seen>>

NextBonus ==
  \/ UpdateSpend
  \/ MarkMet
  \/ TrackMenu
  \/ TrackSelect
  \/ BotSpend
  \/ EditCard

SpecBonus == InitBonus /\ [][NextBonus]_vars

\* bot.py card_info_menu: one info_select button per active card
InfoMenu ==
  /\ \E r \in {bot_load_data(file)} :
       /\ r.ok
       /\ CanSelect(r.df, "Cancellation Date")
       /\ ActiveIdx(r.df) # {}
       /\ chat' = [chat EXCEPT !.info_buttons = @ \cup ActiveIdx(r.df)]
  /\ last' = [op |-> "info_menu", arg |-> <<>>]
  /\ UNCHANGED <<file, today, session, rs, backup_dir, clock, tags, result, disk, lock, pc, pos, buf, ver, seen>>

\* bot.py button_handler, callback data info_select_<idx>: df.loc[card_index]
\* raises KeyError when the label is not in the frame, and nothing catches it
BotInfo ==
  /\ \E card_index \in chat.info_buttons :
       \E r \in {bot_load_data(file)} :
         last' = [op |-> "info", arg |-> <<card_index>>, by |-> "bot",
                  out |-> IF r.ok /\ card_index \in 1..Len(r.df.rows) THEN "shown" ELSE "fault"]
  /\ UNCHANGED <<file, today, session, chat, rs, backup_dir, clock, tags, result, disk, lock, pc, pos, buf, ver, seen>>

\* the bot's buttons outlive the records they were sent for: the dashboard
\* deletes a record, the chat still holds its buttons
NextStale ==
  \/ NextDay
  \/ SendWeeklyFees
  \/ BotFeeAction
  \/ TrackMenu
  \/ TrackSelect
  \/ BotSpend
  \/ InfoMenu
  \/ BotInfo
  \/ ConfirmDelete

SpecStale == InitFees /\ [][NextStale]_vars

\* the add form and the edit form, from an empty file
NextEdit ==
  \/ AddCard
  \/ EditCard
  \/ ConfirmDelete

SpecEdit == InitHandlers /\ [][NextEdit]_vars

(***************************************************************************)
(* The tag manager page                                                    *)
(***************************************************************************)
InitTags ==
  /\ file = OneCardFile
  /\ today = Calendar[1]
  /\ session = [show_sort_form |-> FALSE, duplicate_sort_numbers |-> {}, show_cancelled |-> TRUE]
  /\ chat = NoChat
  /\ tags = {}
  /\ backup_dir = {} /\ clock = 0
  /\ last = [op |-> "start", arg |-> <<>>]
  /\ rs = EmptyFrame /\ result = NoResult
  /\ IdleIO

\* show_tag_manager_page, "Add Tag" submitted with a name not in the list
AddTag ==
  /\ \E new_tag \in TagInputs :
       /\ new_tag \notin load_tags(tags)
       /\ tags' = save_tags(load_tags(tags) \cup {new_tag})
       /\ last' = [op |-> "add_tag", arg |-> new_tag]
  /\ file' = main_setup(file)
  /\ UNCHANGED <<today, session, chat, rs, backup_dir, clock, result, disk, lock, pc, pos, buf, ver, seen>>

\* show_tag_manager_page, "Delete Selected Tags" submitted with a selection:
\* the registry is saved, then every card's Tags cell is cleaned and saved
DeleteTags ==
  /\ load_tags(tags) # {}
  /\ \E tags_to_delete \in SUBSET load_tags(tags) :
       /\ tags_to_delete # {}
       /\ tags' = save_tags(load_tags(tags) \ tags_to_delete)
       /\ \E snap \in {Snapshot} :
            /\ snap.ok
            /\ file' = to_csv(DataFrame(snap.df.cols,
                         [i \in 1..Len(snap.df.rows) |->
                            [snap.df.rows[i] EXCEPT !["Tags"] =
                               VStr(remove_deleted_tags(@.s, tags_to_delete))]]))
       /\ last' = [op |-> "delete_tags", arg |-> tags_to_delete]
  /\ UNCHANGED <<today, session, chat, rs, backup_dir, clock, result, disk, lock, pc, pos, buf, ver, seen>>

NextTags ==
  \/ AddTag
  \/ DeleteTags
  \/ EditCard

SpecTags == InitTags /\ [][NextTags]_vars

(***************************************************************************)
(* The dashboard's "Due Date (Soonest First)" order                        *)
(***************************************************************************)
\* get_month_index(month_name): 0..11, or -1 for a name MONTH_NAMES lacks
get_month_index(month_name) ==
  IF \E k \in 1..12 : <<MONTH_NAMES[k]>> = month_name
  THEN (CHOOSE k \in 1..12 : <<MONTH_NAMES[k]>> = month_name) - 1
  ELSE 0 - 1

current_month_index(d) == MonthOf(d) - 1

due_sort_key(due_month_index, cmi) == (due_month_index - cmi + 12) % 12

\* sort_values(by="due_sort_key"): the rows in an order of ascending keys;
\* the order of rows with equal keys is not fixed by the default sort
sort_values(idx, keys) ==
  {order \in [1..Cardinality(idx) -> idx] :
     \A i, j \in 1..Cardinality(idx) :
       i < j => order[i] # order[j] /\ keys[order[i]] <= keys[order[j]]}

\* the stored Month of Annual Fee cells: the twelve names and the empty cell
FeeMonthCells == {<<MONTH_NAMES[k]>> : k \in 1..12} \cup {<<>>}

\* a file of two cards with the given fee months, each with a welcome bonus
TwoCardFile(m1, m2) ==
  to_csv(DataFrame(ALL_COLUMNS,
           <<[NewCard(<<"DBS">>, <<CardNames[1]>>, <<"0", "5">>, <<"2", "7">>,
                      Last4Of(CardNames[3]), 1, <<>>)
                EXCEPT !["Month of Annual Fee"] = VStr(m1),
                       !["Min Spend"] = VFloat(1500),
                       !["Min Spend Deadline"] = VDate(MkDate(2024, 6, 30))],
             [NewCard(<<"DBS">>, <<CardNames[2]>>, <<"0", "5">>, <<"2", "7">>,
                      Last4Of(CardNames[3]), 2, <<>>)
                EXCEPT !["Month of Annual Fee"] = VStr(m2),
                       !["Min Spend"] = VFloat(1500),
                       !["Min Spend Deadline"] = VDate(MkDate(2024, 6, 30))]>>))

InitSort ==
  /\ \E m1 \in FeeMonthCells, m2 \in FeeMonthCells : file = TwoCardFile(m1, m2)
  /\ today \in {MkDate(2024, m, 15) : m \in 1..12}
  /\ session = [show_sort_form |-> FALSE, duplicate_sort_numbers |-> {}, show_cancelled |-> TRUE]
  /\ chat = NoChat
  /\ tags = {}
  /\ backup_dir = {} /\ clock = 0
  /\ last = [op |-> "start", arg |-> <<>>]
  /\ rs = EmptyFrame /\ result = NoResult
  /\ IdleIO

\* show_dashboard with "Due Date (Soonest First)" selected
SortByDue ==
  /\ result = NoResult
  /\ \E snap \in {Snapshot} :
       LET df == snap.df
           keys == [i \in 1..Len(df.rows) |->
                      due_sort_key(get_month_index(df.rows[i]["Month of Annual Fee"].s),
                                   current_month_index(today))]
       IN  /\ snap.ok
           /\ \E order \in sort_values(cards_to_display(df, session.show_cancelled), keys) :
                result' = [by |-> "dash", op |-> "sort_due", inp |-> file,
                           r |-> [order |-> order, keys |-> keys]]
  /\ last' = [op |-> "sort_due", arg |-> <<>>]
  /\ file' = main_setup(file)
  /\ UNCHANGED <<today, session, chat, rs, backup_dir, clock, tags, disk, lock, pc, pos, buf, ver, seen>>

NextSort == SortByDue

SpecSort == InitSort /\ [][NextSort]_vars

(***************************************************************************)
(* Bot buttons and a pending amount across a permanent delete              *)
(***************************************************************************)
InitRenumber ==
  /\ file = TwoCardFile(<<"May">>, <<"May">>)
  /\ today = Calendar[1]
  /\ session = [show_sort_form |-> FALSE, duplicate_sort_numbers |-> {}, show_cancelled |-> TRUE]
  /\ chat = NoChat
  /\ tags = {}
  /\ backup_dir = {} /\ clock = 0
  /\ last = [op |-> "start", arg |-> <<>>]
  /\ rs = EmptyFrame /\ result = NoResult
  /\ IdleIO

NextRenumber ==
  \/ TrackMenu
  \/ TrackSelect
  \/ BotSpend
  \/ ConfirmDelete

SpecRenumber == InitRenumber /\ [][NextRenumber]_vars

(***************************************************************************)
(* The dashboard's handlers on one card, cancelled or not                  *)
(***************************************************************************)
\* one card, on a day of the month in which its fee is due
InitDates ==
  /\ file = OneCardFile
  /\ today = Calendar[2]
  /\ session = [show_sort_form |-> FALSE, duplicate_sort_numbers |-> {}, show_cancelled |-> TRUE]
  /\ chat = NoChat
  /\ tags = {}
  /\ backup_dir = {} /\ clock = 0
  /\ last = [op |-> "start", arg |-> <<>>]
  /\ rs = EmptyFrame /\ result = NoResult
  /\ IdleIO

NextDates ==
  \/ EditCard
  \/ ConfirmCancel
  \/ Reactivate
  \/ FeeAction
  \/ UpdateSpend
  \/ OpenSortForm
  \/ LeaveSortForm
  \/ SaveOrder

SpecDates == InitDates /\ [][NextDates]_vars

(***************************************************************************)
(* The bot's text messages: a table width or an amount                     *)
(***************************************************************************)
\* bot.py button_handler, callback data set_view_table
SetViewTable ==
  /\ chat' = [chat EXCEPT !.view_mode = "table"]
  /\ last' = [op |-> "set_view", arg |-> <<"table">>]
  /\ UNCHANGED <<file, today, session, rs, backup_dir, clock, tags, result, disk, lock, pc, pos, buf, ver, seen>>

\* bot.py button_handler, callback data set_view_text
SetViewText ==
  /\ chat' = [chat EXCEPT !.view_mode = "text", !.awaiting_custom_width = FALSE]
  /\ last' = [op |-> "set_view", arg |-> <<"text">>]
  /\ UNCHANGED <<file, today, session, rs, backup_dir, clock, tags, result, disk, lock, pc, pos, buf, ver, seen>>

\* bot.py button_handler, callback data set_width_custom (a button of the
\* width menu, which the table view offers)
SetWidthCustom ==
  /\ chat.view_mode = "table"
  /\ chat' = [chat EXCEPT !.awaiting_custom_width = TRUE]
  /\ last' = [op |-> "set_width_custom", arg |-> <<>>]
  /\ UNCHANGED <<file, today, session, rs, backup_dir, clock, tags, result, disk, lock, pc, pos, buf, ver, seen>>

\* messages typed to the bot while it waits for a width
WidthInputs == {<<"4", "5">>, <<"3", "0", "0">>, <<"lunch">>}

\* bot.py handle_message while awaiting_custom_width: a number of 20..100
\* becomes the table width; anything else is answered with a warning
WidthMessage ==
  /\ chat.awaiting_custom_width
  /\ \E text \in WidthInputs :
       IF IsDigits(text) /\ TextToNat(text) \in 20..100
       THEN /\ chat' = [chat EXCEPT !.table_width = TextToNat(text), !.awaiting_custom_width = FALSE]
            /\ last' = [op |-> "width", arg |-> text, out |-> "set"]
       ELSE /\ chat' = chat
            /\ last' = [op |-> "width", arg |-> text, out |-> "warned"]
  /\ UNCHANGED <<file, today, session, rs, backup_dir, clock, tags, result, disk, lock, pc, pos, buf, ver, seen>>

\* bot.py handle_message with neither flag set: the message is dropped
IdleMessage ==
  /\ ~chat.awaiting_custom_width
  /\ ~chat.awaiting_spend_input
  /\ \E text \in WidthInputs : last' = [op |-> "message", arg |-> text, out |-> "dropped"]
  /\ UNCHANGED <<file, today, session, chat, rs, backup_dir, clock, tags, result, disk, lock, pc, pos, buf, ver, seen>>

NextChat ==
  \/ SetViewTable
  \/ SetViewText
  \/ SetWidthCustom
  \/ WidthMessage
  \/ IdleMessage
  \/ TrackMenu
  \/ TrackSelect
  \/ BotSpend
  \/ ConfirmDelete

SpecChat == InitRenumber /\ [][NextChat]_vars

\* the same without the dashboard's delete
NextChatOnly ==
  \/ SetViewTable
  \/ SetViewText
  \/ SetWidthCustom
  \/ WidthMessage
  \/ IdleMessage
  \/ TrackMenu
  \/ TrackSelect
  \/ BotSpend

SpecChatOnly == InitRenumber /\ [][NextChatOnly]_vars

(***************************************************************************)
(* The bot's backups.  A backup file is named after the second in which it *)
(* is made and carries the time of the copy as its modification time; the  *)
(* clock does not run backwards.                                           *)
(***************************************************************************)
MaxClock == 7

\* the number of backups create_backup_file keeps
KEEP_BACKUPS == 5

\* shutil.copy(DATA_FILE, backup_path): a file of that name is replaced
copy_to(dir, name, mtime, content) ==
  {b \in dir : b.name # name} \cup {[name |-> name, mtime |-> mtime, content |-> content]}

rotated_KeepsOldest(files) ==
  IF Cardinality(files) <= KEEP_BACKUPS THEN {files}
  ELSE {kept \in SUBSET files :
          /\ Cardinality(kept) = KEEP_BACKUPS
          /\ \A k \in kept, r \in files \ kept : k.mtime <= r.mtime}

\* files.sort(key=os.path.getmtime); while len(files) > 5: os.remove(files.pop(0)):
\* the directories the rotation can leave (files of equal mtime sort in any order)
rotated(files) ==
  IF Cardinality(files) <= KEEP_BACKUPS THEN {files}
  ELSE {kept \in SUBSET files :
          /\ Cardinality(kept) = KEEP_BACKUPS
          /\ \A k \in kept, r \in files \ kept : r.mtime <= k.mtime}

InitBackup ==
  /\ file = OneCardFile
  /\ today = Calendar[1]
  /\ session = [show_sort_form |-> FALSE, duplicate_sort_numbers |-> {}, show_cancelled |-> TRUE]
  /\ chat = NoChat
  /\ tags = {}
  /\ backup_dir = {}
  /\ clock = 1
  /\ last = [op |-> "start", arg |-> <<>>]
  /\ rs = EmptyFrame /\ result = NoResult
  /\ IdleIO

\* a second passes
Tick ==
  /\ clock < MaxClock
  /\ clock' = clock + 1
  /\ last' = [op |-> "tick", arg |-> <<>>]
  /\ UNCHANGED <<file, today, session, chat, tags, rs, result, backup_dir,
                 disk, lock, pc, pos, buf, ver, seen>>

\* bot.py create_backup_file, called by the /backup button and by the 4 AM job
CreateBackup ==
  /\ file.exists
  /\ \E kept \in rotated(copy_to(backup_dir, clock, clock, file)) :
       /\ backup_dir' = kept
       /\ last' = [op |-> "backup", arg |-> <<clock>>,
                   was |-> copy_to(backup_dir, clock, clock, file) \ kept]
  /\ UNCHANGED <<file, today, session, chat, tags, rs, result, clock,
                 disk, lock, pc, pos, buf, ver, seen>>

NextBackup ==
  \/ Tick
  \/ CreateBackup
  \/ ConfirmCancel

SpecBackup == InitBackup /\ [][NextBackup]_vars

(***************************************************************************)
(* Physical file I/O of the two front ends.  The file on disk is a         *)
(* sequence of lines; a line carries its writer, the writer's save number  *)
(* and its line number, so that a reader's view tells which save each line *)
(* came from.  to_csv opens the file for writing, which truncates it, and  *)
(* writes from the writer's own offset; read_csv reads from the reader's   *)
(* own offset up to the end of the file.  The bot wraps both in            *)
(* FileLock(LOCK_FILE); the dashboard calls them directly.                 *)
(***************************************************************************)
Procs == {"dash", "bot"}

Line(w, v, n) == [w |-> w, v |-> v, n |-> n]

\* bytes nobody wrote: a write beyond the end of the file leaves a gap
Hole == Line("", 0, 0)

CompleteFile(w, v) == [n \in 1..MaxLines |-> Line(w, v, n)]

IsCompleteFile(lines) ==
  /\ Len(lines) = MaxLines
  /\ \A n \in 1..MaxLines : lines[n] = Line(lines[1].w, lines[1].v, n)
  /\ lines[1] # Hole

\* write(2) at offset i
WriteAt(d, i, x) ==
  IF i <= Len(d) THEN [d EXCEPT ![i] = x]
  ELSE d \o [k \in 1..(i - Len(d) - 1) |-> Hole] \o <<x>>

InitIO ==
  /\ disk = CompleteFile("init", 0)
  /\ lock = ""
  /\ pc = [p \in Procs |-> "idle"]
  /\ pos = [p \in Procs |-> 1]
  /\ buf = [p \in Procs |-> <<>>]
  /\ ver = [p \in Procs |-> 0]
  /\ seen = [p \in Procs |-> [done |-> FALSE, lines |-> <<>>]]
  /\ file = AbsentFile /\ rs = EmptyFrame /\ result = NoResult
  /\ IdleHandlers

\* open(DATA_FILE) for reading
OpenRead(p) ==
  /\ pc' = [pc EXCEPT ![p] = "reading"]
  /\ pos' = [pos EXCEPT ![p] = 1]
  /\ buf' = [buf EXCEPT ![p] = <<>>]
  /\ UNCHANGED <<disk, ver, seen>>

\* open(DATA_FILE, "w"): the file is truncated at once
OpenWrite(p) ==
  /\ ver[p] < MaxSaves
  /\ pc' = [pc EXCEPT ![p] = "writing"]
  /\ pos' = [pos EXCEPT ![p] = 1]
  /\ ver' = [ver EXCEPT ![p] = @ + 1]
  /\ disk' = <<>>
  /\ UNCHANGED <<buf, seen>>

\* main.py load_data: pd.read_csv(DATA_FILE), no lock taken
DashOpenRead ==
  /\ pc["dash"] = "idle"
  /\ OpenRead("dash")
  /\ UNCHANGED <<lock, file, today, session, chat, last, rs, backup_dir, clock, tags, result>>

\* main.py handlers: df.to_csv(DATA_FILE, index=False), no lock taken
DashOpenWrite ==
  /\ pc["dash"] = "idle"
  /\ OpenWrite("dash")
  /\ UNCHANGED <<lock, file, today, session, chat, last, rs, backup_dir, clock, tags, result>>

\* bot.py: with FileLock(LOCK_FILE)
BotAcquire ==
  /\ pc["bot"] = "idle" /\ lock = ""
  /\ lock' = "bot"
  /\ pc' = [pc EXCEPT !["bot"] = "locked"]
  /\ UNCHANGED <<disk, pos, buf, ver, seen, file, today, session, chat, last, rs, backup_dir, clock, tags, result>>

\* bot.py load_data: pd.read_csv(DATA_FILE) inside the lock
BotOpenRead ==
  /\ pc["bot"] = "locked"
  /\ OpenRead("bot")
  /\ UNCHANGED <<lock, file, today, session, chat, last, rs, backup_dir, clock, tags, result>>

\* bot.py save_data: df.to_csv(DATA_FILE, index=False) inside the lock
BotOpenWrite ==
  /\ pc["bot"] = "locked"
  /\ OpenWrite("bot")
  /\ UNCHANGED <<lock, file, today, session, chat, last, rs, backup_dir, clock, tags, result>>

\* where a front end goes when its read or write is over
AfterIO(p) == IF p = "bot" THEN "release" ELSE "idle"

\* the reader takes the next line of the file
ReadLine(p) ==
  /\ pc[p] = "reading" /\ pos[p] <= Len(disk)
  /\ buf' = [buf EXCEPT ![p] = Append(@, disk[pos[p]])]
  /\ pos' = [pos EXCEPT ![p] = @ + 1]
  /\ UNCHANGED <<disk, lock, pc, ver, seen, file, today, session, chat, last, rs, backup_dir, clock, tags, result>>

\* the reader is at the end of the file: read_csv returns what it has read
ReadEOF(p) ==
  /\ pc[p] = "reading" /\ pos[p] > Len(disk)
  /\ seen' = [seen EXCEPT ![p] = [done |-> TRUE, lines |-> buf[p]]]
  /\ pc' = [pc EXCEPT ![p] = AfterIO(p)]
  /\ UNCHANGED <<disk, lock, pos, buf, ver, file, today, session, chat, last, rs, backup_dir, clock, tags, result>>

\* the writer puts its next line at its own offset
WriteLine(p) ==
  /\ pc[p] = "writing" /\ pos[p] <= MaxLines
  /\ disk' = WriteAt(disk, pos[p], Line(p, ver[p], pos[p]))
  /\ pos' = [pos EXCEPT ![p] = @ + 1]
  /\ UNCHANGED <<lock, pc, buf, ver, seen, file, today, session, chat, last, rs, backup_dir, clock, tags, result>>

\* the writer has written every line and closes the file
CloseWrite(p) ==
  /\ pc[p] = "writing" /\ pos[p] > MaxLines
  /\ pc' = [pc EXCEPT ![p] = AfterIO(p)]
  /\ UNCHANGED <<disk, lock, pos, buf, ver, seen, file, today, session, chat, last, rs, backup_dir, clock, tags, result>>

\* bot.py: leaving the with block releases the lock
BotRelease ==
  /\ pc["bot"] = "release"
  /\ lock' = ""
  /\ pc' = [pc EXCEPT !["bot"] = "idle"]
  /\ UNCHANGED <<disk, pos, buf, ver, seen, file, today, session, chat, last, rs, backup_dir, clock, tags, result>>

NextIO ==
  \/ DashOpenRead
  \/ DashOpenWrite
  \/ BotAcquire
  \/ BotOpenRead
  \/ BotOpenWrite
  \/ BotRelease
  \/ \E p \in Procs : ReadLine(p)
  \/ \E p \in Procs : ReadEOF(p)
  \/ \E p \in Procs : WriteLine(p)
  \/ \E p \in Procs : CloseWrite(p)

SpecIO == InitIO /\ [][NextIO]_vars

(***************************************************************************)
(* Properties of locking and of what a load can see                        *)
(***************************************************************************)
\* C1: every read and every write of the backing file, by either front end,
\* is performed while the front end holds the store's exclusive lock.
C1_IOHoldsLock ==
  \A p \in Procs : pc[p] \in {"reading", "writing"} => lock = p

\* C2: when the two front ends load and save in any interleaving, every load
\* returns exactly the complete output of one earlier save (or the initial
\* file), never an empty, partially written or mixed file, and once no save
\* is in progress the file is the complete output of one save.
C2_LoadSeesCompleteFile ==
  /\ \A p \in Procs : seen[p].done => IsCompleteFile(seen[p].lines)
  /\ (\A p \in Procs : pc[p] # "writing") => IsCompleteFile(disk)

(***************************************************************************)
(* Properties of the record store                                          *)
(***************************************************************************)
\* absent, zero bytes, or the header line alone
HasNoRows(f) == f \in {AbsentFile, ZeroByteFile, File(ALL_COLUMNS, <<>>)}

\* C3: for every on-disk file, however malformed (columns missing, garbage
\* dates, non-numeric numbers), load() does not raise and returns a record
\* set with every schema field present and of its declared type.
C3_LoadTotalAndTyped ==
  (result.op = "load" /\ result.inp.exists /\ result.inp.header # <<>>)
    => (result.r.ok /\ SchemaConformant(result.r.df))

\* C4: load() on an absent file and on a file with no rows returns, without
\* failing, an empty record set on which every schema column can be selected.
C4_EmptyLoadConforms ==
  (result.op = "load" /\ HasNoRows(result.inp))
    => /\ result.r.ok
       /\ Len(result.r.df.rows) = 0
       /\ \A c \in Range(ALL_COLUMNS) : CanSelect(result.r.df, c)

\* C5: saving a schema-conformant record set and loading it back yields the
\* same record set, field by field.
C5_RoundTrip ==
  result.op = "roundtrip"
    => /\ result.r.ok
       /\ Len(result.r.df.rows) = Len(rs.rows)
       /\ \A i \in 1..Len(rs.rows) : \A c \in Range(ALL_COLUMNS) :
            result.r.df.rows[i][c] = rs.rows[i][c]

\* the file is a well-formed file of an older version without Sort Order
IsPreSortOrderFile(f) ==
  \E n \in 1..Len(f.rows) :
    f = File(HeaderWithout({"Sort Order"}), BaseRows(n, {"Sort Order"}))

\* C6: when the file has rows but no Sort Order column, the dashboard's
\* load_data returns a record set that has the column, every record's Sort
\* Order being its row number (a positive integer, distinct per record); a
\* file whose only defect is the missing column does load.
C6_SortOrderMigrated ==
  (/\ result.op = "load" /\ result.by = "dash"
   /\ result.inp.exists /\ Len(result.inp.rows) >= 1
   /\ "Sort Order" \notin Range(result.inp.header))
    => /\ IsPreSortOrderFile(result.inp) => result.r.ok
       /\ result.r.ok =>
            /\ CanSelect(result.r.df, "Sort Order")
            /\ Len(result.r.df.rows) = Len(result.inp.rows)
            /\ \A i \in 1..Len(result.r.df.rows) :
                 /\ result.r.df.rows[i]["Sort Order"] = VInt(i)
                 /\ result.r.df.rows[i]["Sort Order"].n >= 1

\* a two-row file without Sort Order has been loaded by the dashboard
C6_Witness ==
  /\ result.op = "load" /\ result.by = "dash" /\ result.r.ok
  /\ "Sort Order" \notin Range(result.inp.header)
  /\ Len(result.inp.rows) = 2
  /\ Len(result.r.df.rows) = 2

(***************************************************************************)
(* Properties of the dashboard handlers.  The saved file is read as        *)
(* load_data reads it: a record is cancelled when its Cancellation Date    *)
(* is a date.                                                              *)
(***************************************************************************)
FileCancelled(row) == IsDateText(row["Cancellation Date"])

FileActiveIdx(f) == {i \in 1..Len(f.rows) : ~FileCancelled(f.rows[i])}

FileSortOrder(row) == TextToInt(row["Sort Order"])

FileActiveUnique(f) ==
  \A i, j \in FileActiveIdx(f) :
    i # j => FileSortOrder(f.rows[i]) # FileSortOrder(f.rows[j])

\* two active rows were given the same number
HasSharedOrder(ord) == \E i, j \in DOMAIN ord : i # j /\ ord[i] = ord[j]

\* C7: a reorder submission that gives two or more active records the same
\* order value is rejected as a whole: the shared values are reported (every
\* offending record's number is in the reported set), nothing is saved and the
\* file is what it was before the attempt.
C7_DuplicateOrderRejected ==
  [][ (last'.op \in {"reorder", "reorder_rejected"} /\ HasSharedOrder(last'.arg))
        => /\ last'.op = "reorder_rejected"
           /\ file' = file
           /\ session'.show_sort_form
           /\ \A i, j \in DOMAIN last'.arg :
                (i # j /\ last'.arg[i] = last'.arg[j])
                  => last'.arg[i] \in session'.duplicate_sort_numbers ]_vars

\* a submission giving both active records the same number has been rejected
C7_Witness ==
  /\ last.op = "reorder_rejected"
  /\ Cardinality(FileActiveIdx(file)) = 2
  /\ DOMAIN last.arg = FileActiveIdx(file)
  /\ HasSharedOrder(last.arg)
  /\ session.duplicate_sort_numbers # {}

\* C8: right after a successful reorder no two active records of the saved
\* file share a sort order, and every active record's sort order is an
\* integer >= 1.
C8_ReorderLeavesActiveUnique ==
  last.op = "reorder"
    => /\ FileActiveUnique(file)
       /\ \A i \in FileActiveIdx(file) :
            /\ IsIntText(file.rows[i]["Sort Order"])
            /\ FileSortOrder(file.rows[i]) >= 1
            /\ FileSortOrder(file.rows[i]) = last.arg[i]

\* two active records have been reordered against their row order
C8_Witness ==
  /\ last.op = "reorder"
  /\ FileActiveIdx(file) = {1, 2}
  /\ FileSortOrder(file.rows[1]) = 2
  /\ FileSortOrder(file.rows[2]) = 1

\* C9: in every state reached by add, reorder, cancel, reactivate and delete
\* from a file whose active records have distinct sort orders, sort order is
\* unique among the active records.
C9_ActiveSortOrderUnique == FileActiveUnique(file)

\* C10: a successful reorder changes only the Sort Order of active records:
\* every cancelled record's Sort Order and every other field of every record
\* is in the saved file what it was in the file loaded for the save.
C10_ReorderFrame ==
  [][ last'.op = "reorder"
        => /\ Len(file'.rows) = Len(file.rows)
           /\ \A i \in 1..Len(file.rows) : \A c \in Range(ALL_COLUMNS) :
                (c # "Sort Order" \/ FileCancelled(file.rows[i]))
                  => file'.rows[i][c] = file.rows[i][c] ]_vars

\* C11: cancelling an active record sets its Cancellation Date to today and
\* its Re-apply Date to today plus 13 calendar months (the day clamped to the
\* end of a shorter month), and every other field of that record is in the
\* saved file what it was in the file before the cancel.
C11_CancelSetsDatesOnly ==
  [][ last'.op = "cancel"
        => LET index == last'.arg[1]
           IN  /\ IsDateText(file'.rows[index]["Cancellation Date"])
               /\ TextToDate(file'.rows[index]["Cancellation Date"]) = today
               /\ IsDateText(file'.rows[index]["Re-apply Date"])
               /\ TextToDate(file'.rows[index]["Re-apply Date"]) = AddMonths(today, 13)
               /\ \A c \in Range(ALL_COLUMNS) \ {"Cancellation Date", "Re-apply Date"} :
                    file'.rows[index][c] = file.rows[index][c] ]_vars

(***************************************************************************)
(* Properties of the fee handlers.                                         *)
(***************************************************************************)
\* C12: whatever LastFeeActionYear and LastFeeAction a record held before,
\* after it is cancelled and then re-activated both its Cancellation Date and
\* its Re-apply Date are unset, its LastFeeActionYear is 0 and its
\* LastFeeAction is empty.
C12_ReactivateResets ==
  [][ last'.op = "reactivate"
        => LET index == last'.arg[1]
           IN  /\ FileCancelled(file.rows[index])
               /\ file'.rows[index]["Cancellation Date"] = <<>>
               /\ file'.rows[index]["Re-apply Date"] = <<>>
               /\ file'.rows[index]["LastFeeActionYear"] = <<"0">>
               /\ file'.rows[index]["LastFeeAction"] = <<>> ]_vars

\* a record on which a fee action had been taken has been re-activated
C12_Witness ==
  /\ last.op = "reactivate"
  /\ TextToInt(file.rows[last.arg[1]]["FeeWaivedCount"]) + TextToInt(file.rows[last.arg[1]]["FeePaidCount"]) = 1
  /\ file.rows[last.arg[1]]["LastFeeActionYear"] = <<"0">>

\* C15: a fee action of kind K (Waived or Paid), by the dashboard or by the
\* bot, raises the record's matching counter by exactly 1, sets its
\* LastFeeActionYear to the current year and its LastFeeAction to K, and
\* leaves the other counter as it was; a repeated action raises the counter
\* again.
C15_FeeActionCounts ==
  [][ (last'.op = "fee" /\ last'.out = "saved")
        => LET index == last'.arg[1]
               K == last'.arg[2]
               other == IF K = "Waived" THEN "Paid" ELSE "Waived"
           IN  /\ TextToInt(file'.rows[index][FeeCounter(K)])
                    = TextToInt(file.rows[index][FeeCounter(K)]) + 1
               /\ file'.rows[index][FeeCounter(other)] = file.rows[index][FeeCounter(other)]
               /\ TextToInt(file'.rows[index]["LastFeeActionYear"]) = YearOf(today)
               /\ file'.rows[index]["LastFeeAction"] = <<K>> ]_vars

\* a second fee action of the same kind has been taken on a record
C15_Witness ==
  /\ last.op = "fee" /\ last.out = "saved"
  /\ TextToInt(file.rows[last.arg[1]][FeeCounter(last.arg[2])]) = 2

FileFeeYear(row) == TextToInt(row["LastFeeActionYear"])

\* the view shows "taken" exactly for the listed records whose stored
\* LastFeeActionYear is the year of day d
ShowsTakenIffThisYear(view, f, d) ==
  \A i \in DOMAIN view : (view[i] = "taken") <=> (FileFeeYear(f.rows[i]) = YearOf(d))

\* C16: a record is shown as "action taken" exactly when its
\* LastFeeActionYear is the current year, by the dashboard and by the bot:
\* right after a fee action it is shown as taken, it stays so on every later
\* day of that year, and on a day of a later year it is shown as "action
\* needed" again although nothing was saved.
C16_FeeStatusFollowsYear ==
  [][ /\ ShowsTakenIffThisYear(DashFeeView(file', today', session'.show_cancelled), file', today')
      /\ ShowsTakenIffThisYear(BotFeeView(file', today'), file', today')
      /\ (last'.op = "fee" /\ last'.out = "saved")
           => FileFeeYear(file'.rows[last'.arg[1]]) = YearOf(today')
      /\ last'.op = "day"
           => /\ file' = file
              /\ \A i \in 1..Len(file.rows) :
                   FileFeeYear(file.rows[i]) = YearOf(today)
                     => /\ i \in DOMAIN DashFeeView(file', today', TRUE)
                             => (DashFeeView(file', today', TRUE)[i] = "taken"
                                   <=> YearOf(today') = YearOf(today))
                        /\ i \in DOMAIN BotFeeView(file', today')
                             => (BotFeeView(file', today')[i] = "taken"
                                   <=> YearOf(today') = YearOf(today)) ]_vars

\* the year has changed since a record's fee action: the record is listed as
\* due again and shown as needing action
C16_Witness ==
  /\ last.op = "day"
  /\ YearOf(today) = 2025
  /\ FileFeeYear(file.rows[1]) = 2024
  /\ 1 \in DOMAIN BotFeeView(file, today)
  /\ BotFeeView(file, today)[1] = "needed"
  /\ DashFeeView(file, today, session.show_cancelled)[1] = "needed"

RECURSIVE FileColumnSum(_, _)
FileColumnSum(rows, c) ==
  IF rows = <<>> THEN 0 ELSE TextToInt(rows[1][c]) + FileColumnSum(Tail(rows), c)

\* C20: a record whose Cancellation Date is set is in none of the fee lists
\* (due this month, due next month) and in none of the bonus lists of the
\* dashboard and of the bot, while the bot's lifetime totals still count its
\* FeeWaivedCount and FeePaidCount.
C20_CancelledNotNotified ==
  LET dash == Snapshot.df
      bot == bot_load_data(file).df
  IN  /\ \A i \in 1..Len(file.rows) :
           FileCancelled(file.rows[i])
             => /\ i \notin cards_due_this_month(dash, today, session.show_cancelled)
                /\ i \notin cards_due_next_month(dash, today, session.show_cancelled)
                /\ i \notin active_bonuses(dash, today, session.show_cancelled)
                /\ i \notin this_month_cards(bot, today)
                /\ i \notin due_cards(bot, today)
                /\ i \notin track_cards(bot)
      /\ column_sum(bot.rows, "FeeWaivedCount") = FileColumnSum(file.rows, "FeeWaivedCount")
      /\ column_sum(bot.rows, "FeePaidCount") = FileColumnSum(file.rows, "FeePaidCount")

(***************************************************************************)
(* Properties of the bonus handlers.  last.was is the Bonus Status the     *)
(* handler found, last.arg[2] the new Current Spend.                       *)
(***************************************************************************)
FileStatus(row) == row["Bonus Status"]

FileMinSpend(row) == TextToFloat(row["Min Spend"])

\* the status a spend update is to leave behind
AdvancedStatus(was, new_spend, min_spend) ==
  IF was \in {<<"Not Started">>, <<"In Progress">>} /\ new_spend >= min_spend /\ min_spend > 0
  THEN <<"Met">>
  ELSE IF was = <<"Not Started">> /\ new_spend > 0 THEN <<"In Progress">>
  ELSE was

\* C13: a spend update of either front end advances the Bonus Status: from
\* Not Started to In Progress when the new Current Spend is positive, and to
\* Met when the new Current Spend is at least a positive Min Spend.
C13_SpendAdvancesStatus ==
  [][ (last'.op = "spend" /\ last'.out = "saved")
        => LET index == last'.arg[1]
           IN  FileStatus(file'.rows[index]) =
                 AdvancedStatus(last'.was, last'.arg[2], FileMinSpend(file'.rows[index])) ]_vars

\* Not Started < In Progress < Met < Received
StatusRank(status) == CHOOSE k \in 1..Len(STATUS_OPTIONS) : <<STATUS_OPTIONS[k]>> = status

\* C14: no spend update, by the dashboard or by the bot, moves a record's
\* Bonus Status to a lower value of Not Started < In Progress < Met <
\* Received than the stored one it found; Met and Received are never changed
\* back.
C14_SpendNeverLowersStatus ==
  [][ (last'.op = "spend" /\ last'.out = "saved")
        => StatusRank(FileStatus(file'.rows[last'.arg[1]])) >= StatusRank(last'.was) ]_vars

(***************************************************************************)
(* Properties of the add form and the edit form.                           *)
(***************************************************************************)
\* the stored fee month is the name of the month the stored expiry starts with
FeeMonthMatchesExpiry(row) ==
  /\ ValidMonth(ExpiryMM(row["Card Expiry (MM/YY)"]))
  /\ row["Month of Annual Fee"] = <<MONTH_NAMES[TextToNat(ExpiryMM(row["Card Expiry (MM/YY)"]))]>>

\* C17: after every add and every edit, and in every other state the
\* handlers reach, each record's stored Month of Annual Fee is the name of
\* the month whose number is the MM part of its stored Card Expiry: no
\* handler changes the expiry without changing the fee month to match.
C17_FeeMonthMatchesExpiry ==
  \A i \in 1..Len(file.rows) : FeeMonthMatchesExpiry(file.rows[i])

\* an edit has moved a record's expiry from May to November
C17_Witness ==
  /\ last.op = "edit"
  /\ ExpiryMM(file.rows[last.arg[1]]["Card Expiry (MM/YY)"]) = <<"1", "1">>
  /\ file.rows[last.arg[1]]["Month of Annual Fee"] = <<"November">>

\* the record as saved passes every check of the form
PassesValidation(row) ==
  /\ row["Bank"] # <<>> /\ row["Card Name"] # <<>>
  /\ ValidMonth(ExpiryMM(row["Card Expiry (MM/YY)"]))
  /\ ValidYear(ExpiryYY(row["Card Expiry (MM/YY)"]))
  /\ ValidLast4(row["Last 4 Digits"])

\* C18: an add or edit submission that fails validation (month not 01..12,
\* year not two digits, a non-empty last4 that is not four digits, or a
\* missing bank name) is reported as an error and leaves the record file
\* unchanged; what an accepted submission saves passes all four checks.
C18_RejectedSubmissionSavesNothing ==
  [][ /\ last'.op \in {"add_rejected", "edit_rejected"}
           => /\ file' = file
              /\ last'.why \in {"name", "month", "year", "last4"}
      /\ last'.op = "edit" => PassesValidation(file'.rows[last'.arg[1]])
      /\ last'.op = "add" => PassesValidation(file'.rows[Len(file'.rows)]) ]_vars

\* an edit that typed a one-digit year has been rejected
C18_Witness ==
  /\ last.op = "edit_rejected"
  /\ last.why = "year"
  /\ Len(file.rows) >= 1

(***************************************************************************)
(* Properties of handlers that are given the id of a record.               *)
(***************************************************************************)
\* C19: a handler invoked with a record id that is not in the file it has
\* just loaded answers with a not-found message, raises no unhandled fault
\* and saves nothing.
C19_AbsentIdReported ==
  [][ (last'.op \in {"fee", "spend", "info"} /\ last'.arg[1] \notin 1..Len(file.rows))
        => /\ last'.out = "not_found"
           /\ file' = file ]_vars

(***************************************************************************)
(* Properties of the bonus views.                                          *)
(***************************************************************************)
FileDeadlinePassed(row, d) ==
  /\ IsDateText(row["Min Spend Deadline"])
  /\ TextToDate(row["Min Spend Deadline"]) < d

\* C21: a bonus whose Min Spend Deadline lies before today is in none of the
\* active bonus views: the dashboard's tracker, the bot's /bonus list and
\* /track menu, and the weekly bonus reminder.
C21_ExpiredBonusNotListed ==
  LET dash == Snapshot.df
      bot == bot_load_data(file).df
  IN  \A i \in 1..Len(file.rows) :
        FileDeadlinePassed(file.rows[i], today)
          => /\ i \notin active_bonuses(dash, today, session.show_cancelled)
             /\ i \notin weekly_bonus_cards(bot, today)
             /\ i \notin track_cards(bot)

(***************************************************************************)
(* Properties of the tag manager.                                          *)
(***************************************************************************)
\* the Tags cell holds tag t between its ends and its commas
FieldHasTag(field, t) ==
  \E i \in 1..Len(field), j \in 1..Len(field) :
    /\ SubSeq(field, i, j) = t
    /\ i = 1 \/ field[i - 1] = ","
    /\ j = Len(field) \/ field[j + 1] = ","

\* the tags of a Tags cell, in order
FieldTags(field) == not_in(str_split(field), {<<>>})

\* C22: after a set S of tags is deleted from the registry and the cascade
\* has run, no card's Tags cell holds a member of S, and the tags of every
\* card that are not in S are all still in its cell, in their former order.
C22_DeletedTagsLeaveEveryCard ==
  [][ last'.op = "delete_tags"
        => \A i \in 1..Len(file.rows) :
             /\ \A t \in last'.arg : ~FieldHasTag(file'.rows[i]["Tags"], t)
             /\ FieldTags(file'.rows[i]["Tags"])
                  = not_in(FieldTags(file.rows[i]["Tags"]), last'.arg) ]_vars

(***************************************************************************)
(* Properties of the stored spend.                                         *)
(***************************************************************************)
\* C23: in every state that spend updates of the dashboard and of the bot
\* reach, whatever number the user types to the bot, every record's Current
\* Spend is a number that is not negative.
C23_SpendNeverNegative ==
  \A i \in 1..Len(file.rows) :
    /\ IsNumText(file.rows[i]["Current Spend"])
    /\ TextToFloat(file.rows[i]["Current Spend"]) >= 0

(***************************************************************************)
(* Frame properties of add and delete.                                     *)
(***************************************************************************)
\* the largest stored Sort Order, 0 for a file without records
FileMaxSort(f) ==
  IF f.rows = <<>> THEN 0
  ELSE CHOOSE m \in {TextToFloat(f.rows[i]["Sort Order"]) \div 10 : i \in 1..Len(f.rows)} :
         \A i \in 1..Len(f.rows) : TextToFloat(f.rows[i]["Sort Order"]) \div 10 <= m

\* the stored fields the add form fixes for a new record
FreshRecord(row, sort) ==
  /\ row["Sort Order"] = IntToText(sort)
  /\ row["FeeWaivedCount"] = <<"0">>
  /\ row["FeePaidCount"] = <<"0">>
  /\ row["LastFeeActionYear"] = <<"0">>
  /\ row["LastFeeAction"] = <<>>
  /\ row["Current Spend"] = <<"0", ".", "0">>
  /\ row["Cancellation Date"] = <<>>
  /\ row["Re-apply Date"] = <<>>

\* the new record is appended with the next Sort Order and fresh counters
AddAppendsFresh ==
  [][ last'.op = "add"
        => /\ Len(file'.rows) = Len(file.rows) + 1
           /\ FreshRecord(file'.rows[Len(file'.rows)],
                          IF FileMaxSort(file) < 1 THEN 1 ELSE FileMaxSort(file) + 1) ]_vars

\* C24: Add appends exactly one record, with Sort Order one more than the
\* largest stored one (1 when there is none or it is below 1), fee counters
\* and LastFeeActionYear 0, LastFeeAction empty, Current Spend 0 and no
\* Cancellation or Re-apply Date; every record that was stored before is
\* stored unchanged.
C24_AddAppendsOneRecord ==
  [][ last'.op = "add"
        => /\ Len(file'.rows) = Len(file.rows) + 1
           /\ FreshRecord(file'.rows[Len(file'.rows)],
                          IF FileMaxSort(file) < 1 THEN 1 ELSE FileMaxSort(file) + 1)
           /\ \A i \in 1..Len(file.rows) : file'.rows[i] = file.rows[i] ]_vars

\* one record fewer, and the tag registry as it was
DeleteDropsOne ==
  [][ last'.op = "delete"
        => /\ Len(file'.rows) = Len(file.rows) - 1
           /\ \A i \in 1..Len(file'.rows) :
                file'.rows[i]["Card Name"] =
                  file.rows[IF i < last'.arg[1] THEN i ELSE i + 1]["Card Name"]
           /\ tags' = tags ]_vars

\* C25: a permanent delete removes exactly the chosen record: there is one
\* record fewer, every other record is stored with all its field values and
\* in the same relative order, and the tag registry is as it was.
C25_DeleteRemovesOneRecord ==
  [][ last'.op = "delete"
        => /\ Len(file'.rows) = Len(file.rows) - 1
           /\ \A i \in 1..Len(file'.rows) :
                file'.rows[i] = file.rows[IF i < last'.arg[1] THEN i ELSE i + 1]
           /\ tags' = tags ]_vars

(***************************************************************************)
(* Properties of the due-date order.                                       *)
(***************************************************************************)
\* the month index of a stored Month of Annual Fee cell, -1 when unresolved
FileDueMonth(row) ==
  IF \E k \in 1..12 : row["Month of Annual Fee"] = <<MONTH_NAMES[k]>>
  THEN (CHOOSE k \in 1..12 : row["Month of Annual Fee"] = <<MONTH_NAMES[k]>>) - 1
  ELSE 0 - 1

\* the keys of the resolved months: in 0..11, 0 for this month only and 1
\* for next month only
ResolvedKeysInRange ==
  result.op = "sort_due"
    => \A i \in 1..Len(file.rows) :
         FileDueMonth(file.rows[i]) # 0 - 1
           => /\ result.r.keys[i] \in 0..11
              /\ result.r.keys[i] = 0 <=> FileDueMonth(file.rows[i]) = MonthOf(today) - 1
              /\ result.r.keys[i] = 1 <=> FileDueMonth(file.rows[i]) = MonthOf(today) % 12

\* C26: the due_sort_key of every listed record is in 0..11, is 0 exactly
\* for the records due this month and 1 exactly for those due next month
\* (January after December), and the sorted list never shows a record with
\* an unresolved fee month before, or level with, a record due this month.
C26_DueSortKey ==
  result.op = "sort_due"
    => LET n == Len(result.r.order)
           due(k) == FileDueMonth(file.rows[result.r.order[k]])
           key(k) == result.r.keys[result.r.order[k]]
       IN  /\ \A k \in 1..n :
                /\ key(k) \in 0..11
                /\ key(k) = 0 <=> due(k) = MonthOf(today) - 1
                /\ key(k) = 1 <=> due(k) = MonthOf(today) % 12
           /\ \A k, l \in 1..n :
                (due(k) = 0 - 1 /\ due(l) = MonthOf(today) - 1)
                  => k > l /\ key(k) > key(l)

(***************************************************************************)
(* Properties of actions that carry a row index.                           *)
(***************************************************************************)
\* C27: an action selected for one card (here: an amount sent to the bot
\* after the button with that card's name was pressed) changes no record of
\* another card, also when an earlier row was permanently deleted between
\* the selection and the action.
C27_ActionStaysOnSelectedCard ==
  [][ (last'.op = "spend" /\ last'.by = "bot" /\ last'.out = "saved")
        => \A i \in 1..Len(file.rows), j \in 1..Len(file'.rows) :
             (/\ file.rows[i]["Card Name"] = file'.rows[j]["Card Name"]
              /\ file.rows[i]["Card Name"] # chat.pressed_text)
               => file'.rows[j] = file.rows[i] ]_vars

OneRecordDiffers(f, g) ==
  /\ Len(f.rows) = Len(g.rows)
  /\ Cardinality({i \in 1..Len(f.rows) : f.rows[i] # g.rows[i]}) = 1

\* C29: a text message with neither flag set changes neither the file nor
\* the flags; an amount that parses, sent while awaiting_spend_input, updates
\* exactly one record and clears awaiting_spend_input and
\* tracking_card_index; an amount that does not parse leaves the file and
\* the flags as they were; with both flags set the message is taken as a
\* width and never as an amount.
C29_TextInputMachine ==
  [][ /\ last'.op = "message" => file' = file /\ chat' = chat
      /\ last'.op = "spend"
           => /\ chat.awaiting_spend_input /\ ~chat.awaiting_custom_width
              /\ OneRecordDiffers(file, file')
              /\ ~chat'.awaiting_spend_input
              /\ chat'.tracking_card_index = 0
      /\ last'.op = "spend_rejected" => file' = file /\ chat' = chat
      /\ (chat.awaiting_custom_width /\ chat.awaiting_spend_input
            /\ last'.op \in {"message", "width", "spend", "spend_rejected"})
           => /\ last'.op = "width"
              /\ file' = file
              /\ chat'.awaiting_spend_input
              /\ chat'.tracking_card_index = chat.tracking_card_index ]_vars

(***************************************************************************)
(* Properties of the backups.                                              *)
(***************************************************************************)
\* C30: after every backup the backup directory holds at most five backup
\* files, the file just made is one of them, no removed file is newer than
\* a kept one, and the record file is as it was.
C30_BackupRotation ==
  [][ last'.op = "backup"
        => /\ Cardinality(backup_dir') <= KEEP_BACKUPS
           /\ \E b \in backup_dir' : b.name = clock /\ b.content = file
           /\ \A b \in backup_dir :
                b \notin backup_dir' =>
                  \/ b.name = clock
                  \/ \A k \in backup_dir' : b.mtime < k.mtime
           /\ file' = file ]_vars

\* a backup has removed the oldest of six files
C30_Witness ==
  /\ last.op = "backup"
  /\ last.was # {}
  /\ Cardinality(backup_dir) = KEEP_BACKUPS

====
